---- MODULE Spec2Model ----
(***************************************************************************)
(* Model of the image manager of the ECS agent                             *)
(* (agent/engine/docker_image_manager.go): the inventory of ImageStates,   *)
(* the container-reference operations called by the task engine, and the   *)
(* periodic cleanup loop that deletes unused images.                       *)
(*                                                                         *)
(* Every operation of the manager is a small process: the call, taking the *)
(* manager's updateLock, each call to the docker client, the update of     *)
(* the inventory and the return are separate steps, so that the            *)
(* interleavings the lock allows are the ones the model explores.          *)
(***************************************************************************)
EXTENDS Integers, Sequences, FiniteSets, TLC

VARIABLES
    imageStates,   \* dockerImageManager.imageStates: sequence of ImageState
    updateLock,    \* dockerImageManager.updateLock: the set of its holders
    tags,          \* docker daemon: image name -> image ID (or NoImage)
    now,           \* time.Now(), in hours
    pc,            \* per goroutine: position in the operation it runs
    op,            \* per goroutine: the operation in progress (kind, container)
    insp,          \* per goroutine: result of its InspectImage call
    found,         \* per goroutine: result of getImageState in an add
    inspectCalls,  \* per goroutine: InspectImage calls made by its call
    ret,           \* per goroutine: what its call returns
    sw,            \* per goroutine: the locals of removeImages in a sweep
    calls,         \* number of calls the task engine made so far
    loopPc,        \* performPeriodicImageCleanup: "select" or "returned"
    ctxDone        \* the cleanup loop's context is cancelled

vars == <<imageStates, updateLock, tags, now, pc, op, insp, found,
          inspectCalls, ret, sw, calls, loopPc, ctxDone>>

-----------------------------------------------------------------------------
(* Bounds of the model *)

MaxCalls == 3     \* calls of the task engine explored
MaxTime == 3      \* hours the clock runs

(* Program constants *)

numImagesToDelete == 5
minimumAgeBeforeDeletion == 1

-----------------------------------------------------------------------------
(* Values *)

ImageIDs == {"A", "B"}
ImageNames == {"x", "y"}
NoImage == "none"
\* the goroutines that run the manager's operations: each runs one call of
\* the task engine or one sweep of the cleanup loop at a time
Procs == {"g1", "g2"}

\* api.Container: the fields the manager reads
Containers ==
    { [Name |-> "c1", Image |-> "x"],
      [Name |-> "c2", Image |-> "y"],
      [Name |-> "c1", Image |-> "y"],
      [Name |-> "c3", Image |-> ""] }

NoContainer == [Name |-> "", Image |-> ""]
NoOp == [kind |-> "none", container |-> NoContainer]
NoFound == [ok |-> FALSE, stripped |-> NoImage]
\* the locals of a sweep: the selected images still to delete; for the first
\* of them the names it had when the loop over imageNames began, the backing
\* array of that slice and the index of the range over it; and, for the
\* record, the deleteImage calls made so far: the image, the argument and
\* the result of RemoveImage, and whether Save was called
NoSweep == [lru |-> <<>>, names |-> <<>>, arr |-> <<>>, k |-> 0, log |-> <<>>]

\* the images the daemon is asked to pull: y names image A, x names image A
\* and, once re-tagged, image B
Pulls == {<<"x", "A">>, <<"x", "B">>, <<"y", "A">>}

\* docker's inspect result: the size is a property of the image
SizeOf(id) == IF id = "A" THEN 10 ELSE 20

\* time.Time{}: the zero time of a LastUsedAt never set
ZeroTime == 0

-----------------------------------------------------------------------------
(* Slices *)

\* append(s[:i-1], s[i:]...): the slice without its i-th element
RemoveAt(s, i) == SubSeq(s, 1, i - 1) \o SubSeq(s, i + 1, Len(s))

\* the first index of s whose element satisfies P, or 0
FirstIndex(s, P(_)) ==
    IF \E i \in 1..Len(s) : P(s[i])
    THEN CHOOSE i \in 1..Len(s) : P(s[i]) /\ \A j \in 1..(i - 1) : ~P(s[j])
    ELSE 0

-----------------------------------------------------------------------------
(* The inventory: helpers of dockerImageManager *)

\* getImageState: the index of the first ImageState with this ID (0: !ok)
getImageState(states, containerImageID) ==
    LET Match(st) == st.Image.ImageId = containerImageID
    IN  FirstIndex(states, Match)

\* a variant that never finds the name
hasImageName_Never(imageState, containerImageName) == FALSE

hasImageName(imageState, containerImageName) ==
    \E i \in 1..Len(imageState.Image.Names) :
        imageState.Image.Names[i] = containerImageName

addImageName(imageState, imageName) ==
    [imageState EXCEPT !.Image.Names = Append(@, imageName)]

\* ImageState.AddImageName of package image: appends the name unless the
\* ImageState has it
AddImageName(imageState, imageName) ==
    IF ~hasImageName(imageState, imageName)
    THEN [imageState EXCEPT !.Image.Names = Append(@, imageName)]
    ELSE imageState

\* a variant that loses the reference
updateContainerReference_Forget(imageState, container) == imageState

\* a variant that takes the addition for a use of the image
updateContainerReference_Touch(imageState, container) ==
    [imageState EXCEPT !.Containers = Append(@, container), !.LastUsedAt = now]

\* a variant that takes the addition for a new pull of the image
updateContainerReference_Repull(imageState, container) ==
    [imageState EXCEPT !.Containers = Append(@, container), !.PulledAt = now]

\* a variant that keeps one reference for each container name
updateContainerReference_Dedup(imageState, container) ==
    IF \E k \in 1..Len(imageState.Containers) :
           imageState.Containers[k].Name = container.Name
    THEN imageState
    ELSE [imageState EXCEPT !.Containers = Append(@, container)]

updateContainerReference(imageState, container) ==
    [imageState EXCEPT !.Containers = Append(@, container)]

addImageState(states, imageState) == Append(states, imageState)

\* a variant that drops the last ImageState of the inventory
removeImageState_Last(states, imageStateToBeRemoved) ==
    IF states = <<>> THEN states ELSE RemoveAt(states, Len(states))

\* removeImageState: drops the first ImageState with the same ID
removeImageState(states, imageStateToBeRemoved) ==
    LET i == getImageState(states, imageStateToBeRemoved.Image.ImageId)
    IN  IF i = 0 THEN states ELSE RemoveAt(states, i)

\* the ImageState of removeExistingImageNameOfDifferentID's first match:
\* the first state, in inventory order, of another ID that holds the name
StaleHolder(states, containerImageName, inspectedImageID) ==
    LET Stale(st) == /\ st.Image.ImageId # inspectedImageID
                     /\ hasImageName(st, containerImageName)
    IN  FirstIndex(states, Stale)

\* a variant that never untags
removeExistingImageNameOfDifferentID_Skip(states, containerImageName, inspectedImageID) ==
    states

\* a variant that untags the holder's first name, whichever it is
removeExistingImageNameOfDifferentID_First(states, containerImageName, inspectedImageID) ==
    LET s == StaleHolder(states, containerImageName, inspectedImageID)
    IN  IF s = 0 THEN states
        ELSE [states EXCEPT ![s].Image.Names = RemoveAt(@, 1)]

\* removeExistingImageNameOfDifferentID: untags the name from the first
\* ImageState of a different ID that holds it, and returns
removeExistingImageNameOfDifferentID(states, containerImageName, inspectedImageID) ==
    LET s == StaleHolder(states, containerImageName, inspectedImageID)
        IsName(n) == n = containerImageName
    IN  IF s = 0 THEN states
        ELSE [states EXCEPT ![s].Image.Names =
                 RemoveAt(@, FirstIndex(@, IsName))]

\* the ImageState AddContainerReferenceToImageState creates for a new ID
NewImageState(id, t) ==
    [Image |-> [ImageId |-> id, Names |-> <<>>, Size |-> SizeOf(id)],
     Containers |-> <<>>,
     PulledAt |-> t,
     LastUsedAt |-> ZeroTime]

-----------------------------------------------------------------------------
(* The docker client *)

\* InspectImage(name): the ID the daemon resolves the name to, or an error
InspectImageResults(name) ==
    {"err"} \cup (IF name \in ImageNames /\ tags[name] # NoImage
                  THEN {tags[name]} ELSE {})

\* RemoveImage(identity): for a name, success when the daemon holds the tag
\* and "no such image" when it does not; for an ID either; any call may fail
\* with another error (the image is in use, the daemon timed out)
RemoveImageResults(identity) ==
    IF identity \in DOMAIN tags
    THEN {"error"} \cup (IF tags[identity] # NoImage
                         THEN {"ok"} ELSE {"no such image"})
    ELSE {"error", "ok", "no such image"}

\* the daemon's tags after a successful RemoveImage(identity)
Untag(identity) ==
    [n \in DOMAIN tags |->
        IF n = identity \/ tags[n] = identity THEN NoImage ELSE tags[n]]

-----------------------------------------------------------------------------
(* sync.RWMutex updateLock, taken in write mode by every operation *)

\* a lock that admits a second holder
CanLock_Shared(holders) == Cardinality(holders) <= 1

\* a lock that excludes nobody
CanLock_Always(holders) == TRUE

\* Lock() returns only when nobody holds the lock
CanLock(holders) == holders = {}

-----------------------------------------------------------------------------
(* Initial state: NewImageManager(client), nothing pulled, nothing called *)

Init ==
    /\ imageStates = <<>>
    /\ updateLock = {}
    /\ tags = [n \in ImageNames |-> NoImage]
    /\ now = 1
    /\ pc = [g \in Procs |-> "idle"]
    /\ op = [g \in Procs |-> NoOp]
    /\ insp = [g \in Procs |-> NoImage]
    /\ found = [g \in Procs |-> NoFound]
    /\ inspectCalls = [g \in Procs |-> 0]
    /\ ret = [g \in Procs |-> "none"]
    /\ sw = [g \in Procs |-> NoSweep]
    /\ calls = 0
    /\ loopPc = "select"
    /\ ctxDone = FALSE

procVars == <<pc, op, insp, found, inspectCalls, ret, sw>>
loopVars == <<loopPc, ctxDone>>

-----------------------------------------------------------------------------
(* The environment: the clock and the docker daemon *)

AdvanceClock ==
    /\ now < MaxTime
    /\ now' = now + 1
    /\ UNCHANGED <<imageStates, updateLock, tags, procVars, calls, loopVars>>

\* docker pull name: the daemon (re)assigns the tag to an image
Pull(name, id) ==
    /\ tags[name] # id
    /\ tags' = [tags EXCEPT ![name] = id]
    /\ UNCHANGED <<imageStates, updateLock, now, procVars, calls, loopVars>>

-----------------------------------------------------------------------------
(* Starting an operation, the lock, the return *)

\* an operation starts on the first goroutine that is free
Free(g) == pc[g] = "idle" /\ (g = "g2" => pc["g1"] # "idle")

\* the task engine calls AddContainerReferenceToImageState (kind "add") or
\* RemoveContainerReferenceFromImageState (kind "remove")
Call(g, kind, container) ==
    /\ Free(g)
    /\ calls < MaxCalls
    /\ calls' = calls + 1
    /\ pc' = [pc EXCEPT ![g] = "lock"]
    /\ op' = [op EXCEPT ![g] = [kind |-> kind, container |-> container]]
    /\ UNCHANGED <<imageStates, updateLock, tags, now, insp, found, inspectCalls,
                   ret, sw, loopVars>>

\* a variant whose ticker is not stopped when the loop returns
Tick_AfterReturn(g) ==
    /\ Free(g)
    /\ pc' = [pc EXCEPT ![g] = "lock"]
    /\ op' = [op EXCEPT ![g] = [kind |-> "sweep", container |-> NoContainer]]
    /\ UNCHANGED <<imageStates, updateLock, tags, now, insp, found, inspectCalls,
                   ret, sw, calls, loopVars>>

\* case <-imageManager.imageCleanupTicker.C: go removeUnusedImages(taskEngine)
Tick(g) ==
    /\ loopPc = "select"
    /\ Free(g)
    /\ pc' = [pc EXCEPT ![g] = "lock"]
    /\ op' = [op EXCEPT ![g] = [kind |-> "sweep", container |-> NoContainer]]
    /\ UNCHANGED <<imageStates, updateLock, tags, now, insp, found, inspectCalls,
                   ret, sw, calls, loopVars>>

\* a variant in which a sweep gives up once the context is cancelled
Lock_UnlessCancelled(g) ==
    /\ pc[g] = "lock"
    /\ CanLock(updateLock)
    /\ IF ctxDone /\ op[g].kind = "sweep"
       THEN /\ pc' = [pc EXCEPT ![g] = "idle"]
            /\ op' = [op EXCEPT ![g] = NoOp]
            /\ UNCHANGED updateLock
       ELSE /\ updateLock' = updateLock \cup {g}
            /\ pc' = [pc EXCEPT ![g] = "locked"]
            /\ UNCHANGED op
    /\ UNCHANGED <<imageStates, tags, now, insp, found, inspectCalls, ret,
                   sw, calls, loopVars>>

\* imageManager.updateLock.Lock(), the first statement of the three operations
Lock(g) ==
    /\ pc[g] = "lock"
    /\ CanLock(updateLock)
    /\ updateLock' = updateLock \cup {g}
    /\ pc' = [pc EXCEPT ![g] = "locked"]
    /\ UNCHANGED <<imageStates, tags, now, op, insp, found, inspectCalls, ret,
                   sw, calls, loopVars>>

\* return r, before the deferred updateLock.Unlock()
Return(g, r) ==
    /\ pc' = [pc EXCEPT ![g] = "return"]
    /\ ret' = [ret EXCEPT ![g] = r]
    /\ UNCHANGED <<updateLock, tags, now, op, insp, found, inspectCalls, sw,
                   calls, loopVars>>

\* a variant whose Unlock is not deferred: an operation that returns an
\* error returns without it
Unlock_OnSuccess(g) ==
    /\ pc[g] = "return"
    /\ updateLock' = IF ret[g] \in {"InvalidReference", "InspectionError",
                                     "NotFound", "ReferenceNotFound"}
                     THEN updateLock ELSE updateLock \ {g}
    /\ pc' = [pc EXCEPT ![g] = "idle"]
    /\ op' = [op EXCEPT ![g] = NoOp]
    /\ insp' = [insp EXCEPT ![g] = NoImage]
    /\ found' = [found EXCEPT ![g] = NoFound]
    /\ inspectCalls' = [inspectCalls EXCEPT ![g] = 0]
    /\ ret' = [ret EXCEPT ![g] = "none"]
    /\ sw' = [sw EXCEPT ![g] = NoSweep]
    /\ UNCHANGED <<imageStates, tags, now, calls, loopVars>>

\* defer imageManager.updateLock.Unlock(): the operation ends
Unlock(g) ==
    /\ pc[g] = "return"
    /\ updateLock' = updateLock \ {g}
    /\ pc' = [pc EXCEPT ![g] = "idle"]
    /\ op' = [op EXCEPT ![g] = NoOp]
    /\ insp' = [insp EXCEPT ![g] = NoImage]
    /\ found' = [found EXCEPT ![g] = NoFound]
    /\ inspectCalls' = [inspectCalls EXCEPT ![g] = 0]
    /\ ret' = [ret EXCEPT ![g] = "none"]
    /\ sw' = [sw EXCEPT ![g] = NoSweep]
    /\ UNCHANGED <<imageStates, tags, now, calls, loopVars>>

-----------------------------------------------------------------------------
(* AddContainerReferenceToImageState / RemoveContainerReferenceFromImageState *)

IsCall(g) == op[g].kind \in {"add", "remove"}

\* a variant without the check of the image name
EmptyImage_Never(container) == FALSE

\* if container.Image == ""
EmptyImage(container) == container.Image = ""

\* a variant that ignores the error of InspectImage
InspectFailed_Never(r) == FALSE

\* if err != nil, after InspectImage
InspectFailed(r) == r = "err"

\* if container.Image == "" { return error }
EmptyImageName(g) ==
    /\ pc[g] = "locked"
    /\ IsCall(g)
    /\ EmptyImage(op[g].container)
    /\ Return(g, "InvalidReference")
    /\ UNCHANGED imageStates

\* imageManager.client.InspectImage(container.Image)
InspectImage(g) ==
    /\ pc[g] = "locked"
    /\ IsCall(g)
    /\ ~EmptyImage(op[g].container)
    /\ \E r \in InspectImageResults(op[g].container.Image) :
           insp' = [insp EXCEPT ![g] = r]
    /\ inspectCalls' = [inspectCalls EXCEPT ![g] = @ + 1]
    /\ pc' = [pc EXCEPT ![g] = "inspected"]
    /\ UNCHANGED <<imageStates, updateLock, tags, now, op, found, ret, sw, calls,
                   loopVars>>

\* if err != nil { return err }
InspectError(g) ==
    /\ pc[g] = "inspected"
    /\ InspectFailed(insp[g])
    /\ Return(g, "InspectionError")
    /\ UNCHANGED imageStates

\* add, lines 95-96: removeExistingImageNameOfDifferentID, then getImageState
AddLookup(g) ==
    /\ pc[g] = "inspected"
    /\ op[g].kind = "add"
    /\ ~InspectFailed(insp[g])
    /\ LET name == op[g].container.Image
           s == StaleHolder(imageStates, name, insp[g])
       IN  /\ imageStates' =
                  removeExistingImageNameOfDifferentID(imageStates, name, insp[g])
           /\ found' = [found EXCEPT ![g] =
                  [ok |-> getImageState(imageStates', insp[g]) # 0,
                   stripped |-> IF s = 0 THEN NoImage
                                ELSE imageStates[s].Image.ImageId]]
    /\ pc' = [pc EXCEPT ![g] = "update"]
    /\ UNCHANGED <<updateLock, tags, now, op, insp, inspectCalls, ret, sw, calls,
                   loopVars>>

\* add, lines 97-107: the ImageState exists; add the name if it is missing
\* and the container (the ImageState is reached through the pointer that
\* getImageState returned: an update of a state no longer in the inventory
\* is not seen there)
UpdateExisting(states, id, container) ==
    LET i == getImageState(states, id)
    IN  IF i = 0 THEN states
        ELSE [states EXCEPT ![i] =
                 updateContainerReference(
                     IF hasImageName(@, container.Image) THEN @
                     ELSE addImageName(@, container.Image),
                     container)]

\* add, lines 108-121: a new ImageState, pulled now
CreateNew(states, id, container) ==
    addImageState(states,
        updateContainerReference(
            addImageName(NewImageState(id, now), container.Image), container))

AddUpdate(g) ==
    /\ pc[g] = "update"
    /\ imageStates' = IF found[g].ok
                      THEN UpdateExisting(imageStates, insp[g], op[g].container)
                      ELSE CreateNew(imageStates, insp[g], op[g].container)
    /\ Return(g, "nil")

\* a variant that updates LastUsedAt before it searches the Containers
removeReference_Bump(states, id, container, t) ==
    LET i == getImageState(states, id)
        SameName(c) == c.Name = container.Name
        j == IF i = 0 THEN 0 ELSE FirstIndex(states[i].Containers, SameName)
    IN  IF i = 0 THEN [states |-> states, err |-> "NotFound"]
        ELSE IF j = 0
        THEN [states |-> [states EXCEPT ![i].LastUsedAt = t],
              err |-> "ReferenceNotFound"]
        ELSE [states |-> [states EXCEPT ![i].Containers = RemoveAt(@, j),
                                        ![i].LastUsedAt = t],
              err |-> "nil"]

\* a variant that removes the last Container of the name
removeReference_Last(states, id, container, t) ==
    LET i == getImageState(states, id)
        Named == IF i = 0 THEN {}
                 ELSE {k \in 1..Len(states[i].Containers) :
                          states[i].Containers[k].Name = container.Name}
    IN  IF i = 0 THEN [states |-> states, err |-> "NotFound"]
        ELSE IF Named = {} THEN [states |-> states, err |-> "ReferenceNotFound"]
        ELSE [states |-> [states EXCEPT
                  ![i].Containers =
                      RemoveAt(@, CHOOSE k \in Named : \A m \in Named : m <= k),
                  ![i].LastUsedAt = t],
              err |-> "nil"]

\* a variant that drops the ImageState with its last reference
removeReference_Purge(states, id, container, t) ==
    LET i == getImageState(states, id)
        SameName(c) == c.Name = container.Name
        j == IF i = 0 THEN 0 ELSE FirstIndex(states[i].Containers, SameName)
    IN  IF i = 0 THEN [states |-> states, err |-> "NotFound"]
        ELSE IF j = 0 THEN [states |-> states, err |-> "ReferenceNotFound"]
        ELSE IF Len(states[i].Containers) = 1
        THEN [states |-> RemoveAt(states, i), err |-> "nil"]
        ELSE [states |-> [states EXCEPT ![i].Containers = RemoveAt(@, j),
                                        ![i].LastUsedAt = t],
              err |-> "nil"]

\* a variant that forgets to update LastUsedAt
removeReference_Stale(states, id, container, t) ==
    LET i == getImageState(states, id)
        SameName(c) == c.Name = container.Name
        j == IF i = 0 THEN 0 ELSE FirstIndex(states[i].Containers, SameName)
    IN  IF i = 0 THEN [states |-> states, err |-> "NotFound"]
        ELSE IF j = 0 THEN [states |-> states, err |-> "ReferenceNotFound"]
        ELSE [states |-> [states EXCEPT ![i].Containers = RemoveAt(@, j)],
              err |-> "nil"]

\* remove, lines 138-155: the inventory and the error after the lookup of
\* the ImageState of the inspected ID and the search of its Containers for
\* the first one of the container's name
removeReference(states, id, container, t) ==
    LET i == getImageState(states, id)
        SameName(c) == c.Name = container.Name
        j == IF i = 0 THEN 0 ELSE FirstIndex(states[i].Containers, SameName)
    IN  IF i = 0 THEN [states |-> states, err |-> "NotFound"]
        ELSE IF j = 0 THEN [states |-> states, err |-> "ReferenceNotFound"]
        ELSE [states |-> [states EXCEPT ![i].Containers = RemoveAt(@, j),
                                        ![i].LastUsedAt = t],
              err |-> "nil"]

RemoveReference(g) ==
    /\ pc[g] = "inspected"
    /\ op[g].kind = "remove"
    /\ ~InspectFailed(insp[g])
    /\ LET r == removeReference(imageStates, insp[g], op[g].container, now)
       IN  /\ imageStates' = r.states
           /\ Return(g, r.err)

-----------------------------------------------------------------------------
(* The cleanup: candidates, ranking, deletion *)

\* a variant that takes the minimum age for old enough
isImageOldEnough_AtLeast(imageState, t) ==
    t - imageState.PulledAt >= minimumAgeBeforeDeletion

\* a variant without the threshold
isImageOldEnough_Any(imageState, t) == TRUE

isImageOldEnough(imageState, t) ==
    t - imageState.PulledAt > minimumAgeBeforeDeletion

\* a variant that takes every image for unreferenced
hasNoAssociatedContainers_Always(imageState) == TRUE

hasNoAssociatedContainers(imageState) == Len(imageState.Containers) = 0

\* getCandidateImagesForDeletion: the old enough, unreferenced ImageStates,
\* in inventory order
RECURSIVE getCandidateImagesForDeletion(_, _)
getCandidateImagesForDeletion(states, t) ==
    IF states = <<>> THEN <<>>
    ELSE LET rest == getCandidateImagesForDeletion(Tail(states), t)
         IN  IF isImageOldEnough(Head(states), t)
                /\ hasNoAssociatedContainers(Head(states))
             THEN <<Head(states)>> \o rest
             ELSE rest

\* a variant that ranks the most recently used first
Less_After(a, b) == a.LastUsedAt > b.LastUsedAt

\* ImageStatesForDeletion.Less
Less(a, b) == a.LastUsedAt < b.LastUsedAt

\* sort.Sort(candidateImages): on the short slices of a cleanup the library
\* sorts by insertion, each element moving left past the elements it is
\* Less than
RECURSIVE InsertSorted(_, _)
InsertSorted(sorted, x) ==
    IF sorted = <<>> THEN <<x>>
    ELSE LET n == Len(sorted)
         IN  IF Less(x, sorted[n])
             THEN Append(InsertSorted(SubSeq(sorted, 1, n - 1), x), sorted[n])
             ELSE Append(sorted, x)

RECURSIVE SortByLastUsed(_)
SortByLastUsed(states) ==
    IF states = <<>> THEN <<>>
    ELSE LET n == Len(states)
         IN  InsertSorted(SortByLastUsed(SubSeq(states, 1, n - 1)), states[n])

\* a variant without the quota
getLeastRecentlyUsedImages_All(imagesForDeletion) ==
    SortByLastUsed(imagesForDeletion)

\* getLeastRecentlyUsedImages: the first numImagesToDelete of the sorted
\* candidates
getLeastRecentlyUsedImages(imagesForDeletion) ==
    LET lruImages == SortByLastUsed(imagesForDeletion)
    IN  IF Len(lruImages) <= numImagesToDelete THEN lruImages
        ELSE SubSeq(lruImages, 1, numImagesToDelete)

\* removeImageName: for i, imageName := range Names { if imageName == name
\* { Names = append(Names[:i], Names[i+1:]...) } }.  The range runs over the
\* n0 elements the slice had when the loop began and reads them from the
\* backing array arr, which every splice shifts to the left; Names is the
\* first len elements of arr.  A match at an index beyond the current length
\* makes Names[i+1:] panic.
RECURSIVE removeImageNameFrom(_, _, _, _, _)
removeImageNameFrom(arr, len, n0, i, name) ==
    IF i > n0 THEN [arr |-> arr, len |-> len, panic |-> FALSE]
    ELSE IF arr[i] # name THEN removeImageNameFrom(arr, len, n0, i + 1, name)
    ELSE IF i > len THEN [arr |-> arr, len |-> len, panic |-> TRUE]
    ELSE removeImageNameFrom(
             [j \in 1..Len(arr) |->
                 IF j >= i /\ j < len THEN arr[j + 1] ELSE arr[j]],
             len - 1, n0, i + 1, name)

\* the backing array of a Names slice: the slice, followed by what the
\* array held behind it
BackingArray(names, arr) ==
    IF Len(names) >= Len(arr) THEN names
    ELSE names \o SubSeq(arr, Len(names) + 1, Len(arr))

removeImageName(containerImageName, names, arr) ==
    removeImageNameFrom(BackingArray(names, arr), Len(names), Len(names), 1,
                        containerImageName)

\* the Names slice of the ImageState with this ID (removeImages, line 306)
NamesOf(states, id) ==
    LET i == getImageState(states, id)
    IN  IF i = 0 THEN <<>> ELSE states[i].Image.Names

-----------------------------------------------------------------------------
(* removeUnusedImages *)

\* the image IDs of a list of ImageStates (the list holds pointers)
IdsOf(states) == [i \in 1..Len(states) |-> states[i].Image.ImageId]

\* lines 286-292: the candidates and their ranking; without candidates the
\* sweep returns
SweepScan(g) ==
    /\ pc[g] = "locked"
    /\ op[g].kind = "sweep"
    /\ LET candidates == getCandidateImagesForDeletion(imageStates, now)
           lru == getLeastRecentlyUsedImages(candidates)
       IN  IF Len(candidates) < 1
           THEN /\ pc' = [pc EXCEPT ![g] = "return"]
                /\ UNCHANGED sw
           ELSE /\ pc' = [pc EXCEPT ![g] = "remove"]
                /\ sw' = [sw EXCEPT ![g] =
                       [lru |-> IdsOf(lru), names |-> lru[1].Image.Names,
                        arr |-> lru[1].Image.Names, k |-> 1, log |-> <<>>]]
    /\ UNCHANGED <<imageStates, updateLock, tags, now, op, insp, found,
                   inspectCalls, ret, calls, loopVars>>

\* the identity the next RemoveImage call of the sweep passes: the ID of an
\* image without names, else the k-th element of the range over imageNames
Identity(g) ==
    IF Len(sw[g].arr) = 0 THEN Head(sw[g].lru) ELSE sw[g].arr[sw[g].k]

\* a variant that saves the state after every delete that did not fail
deleteImage_SaveAlways(states, imageIdentity, id, arr) ==
    LET i == getImageState(states, id)
        r == removeImageName(imageIdentity, NamesOf(states, id), arr)
        names == SubSeq(r.arr, 1, r.len)
    IN  [states |-> IF i = 0 THEN states
                    ELSE IF r.len = 0 THEN removeImageState(states, states[i])
                    ELSE [states EXCEPT ![i].Image.Names = names],
         arr |-> IF Len(r.arr) >= Len(arr) THEN SubSeq(r.arr, 1, Len(arr)) ELSE arr,
         panic |-> r.panic,
         saved |-> ~r.panic]

\* deleteImage, lines 324-330, after a RemoveImage that succeeded or found
\* no such image: the inventory, the backing array of the image's names and
\* whether the state was saved
deleteImage(states, imageIdentity, id, arr) ==
    LET i == getImageState(states, id)
        r == removeImageName(imageIdentity, NamesOf(states, id), arr)
        names == SubSeq(r.arr, 1, r.len)
    IN  [states |-> IF i = 0 THEN states
                    ELSE IF r.len = 0 THEN removeImageState(states, states[i])
                    ELSE [states EXCEPT ![i].Image.Names = names],
         arr |-> IF Len(r.arr) >= Len(arr) THEN SubSeq(r.arr, 1, Len(arr)) ELSE arr,
         panic |-> r.panic,
         saved |-> ~r.panic /\ r.len = 0]

\* a variant that takes "no such image" for a failure
DeleteFailed_NotFound(result) == result # "ok"

\* deleteImage, lines 316-322: an error of RemoveImage other than "no such
\* image" ends the call
DeleteFailed(result) == result = "error"

\* removeImages: one deleteImage call of the loops over the selected images
\* and over the names of each; after the last one the sweep returns
SweepRemoveImage(g) ==
    /\ pc[g] = "remove"
    /\ \E result \in RemoveImageResults(Identity(g)) :
         LET id == Head(sw[g].lru)
             d == IF DeleteFailed(result)
                  THEN [states |-> imageStates, arr |-> sw[g].arr,
                        panic |-> FALSE, saved |-> FALSE]
                  ELSE deleteImage(imageStates, Identity(g), id, sw[g].arr)
             rest == Tail(sw[g].lru)
             called == [sw[g] EXCEPT !.log = Append(@,
                           [image |-> id, arg |-> Identity(g), err |-> result,
                            saved |-> d.saved])]
         IN  /\ tags' = IF result = "ok" THEN Untag(Identity(g)) ELSE tags
             /\ imageStates' = d.states
             /\ IF d.panic
                THEN /\ pc' = [pc EXCEPT ![g] = "panic"]
                     /\ sw' = [sw EXCEPT ![g] = called]
                ELSE IF sw[g].k < Len(sw[g].arr)
                THEN /\ sw' = [sw EXCEPT ![g] =
                            [called EXCEPT !.arr = d.arr, !.k = @ + 1]]
                     /\ UNCHANGED pc
                ELSE IF rest # <<>>
                THEN /\ sw' = [sw EXCEPT ![g] =
                            [called EXCEPT !.lru = rest,
                                           !.names = NamesOf(d.states, Head(rest)),
                                           !.arr = NamesOf(d.states, Head(rest)),
                                           !.k = 1]]
                     /\ UNCHANGED pc
                ELSE /\ sw' = [sw EXCEPT ![g] = [called EXCEPT !.arr = d.arr]]
                     /\ pc' = [pc EXCEPT ![g] = "return"]
    /\ UNCHANGED <<updateLock, now, op, insp, found, inspectCalls, ret, calls,
                   loopVars>>

-----------------------------------------------------------------------------
(* performPeriodicImageCleanup: cancellation *)

\* the owner of the context cancels it
Cancel ==
    /\ ~ctxDone
    /\ ctxDone' = TRUE
    /\ UNCHANGED <<imageStates, updateLock, tags, now, procVars, calls, loopPc>>

\* a variant in which the loop also returns when a delete has failed
LoopReturn_OnError ==
    /\ loopPc = "select"
    /\ \/ ctxDone
       \/ \E g \in Procs : \E k \in 1..Len(sw[g].log) : sw[g].log[k].err = "error"
    /\ loopPc' = "returned"
    /\ UNCHANGED <<imageStates, updateLock, tags, now, procVars, calls, ctxDone>>

\* case <-ctx.Done(): imageCleanupTicker.Stop(); return
LoopReturn ==
    /\ loopPc = "select"
    /\ ctxDone
    /\ loopPc' = "returned"
    /\ UNCHANGED <<imageStates, updateLock, tags, now, procVars, calls, ctxDone>>

-----------------------------------------------------------------------------
(* The manager after a restart: AddAllImageStates has loaded the inventory *)
(* that was saved, and only the cleanup loop runs                           *)

\* the images of the saved inventory, one more than a sweep may delete
SweepIDs == <<"A", "B", "C", "D", "E", "F">>
\* the name of each image but the third, whose names are the first k of
\* SweepAliases
SweepNames == <<"a", "b", "c", "d", "e", "f">>
SweepAliases == <<"x", "y", "z">>

\* the time of the restart
SweepTime == 9

\* LastUsedAt of the images, by position: in the order of the inventory,
\* in the opposite order, in no order, or all released in the last hour
Stamps ==
    [asc  |-> <<2, 3, 4, 5, 6, 7>>,
     desc |-> <<7, 6, 5, 4, 3, 2>>,
     mix  |-> <<4, 7, 2, 6, 3, 5>>,
     late |-> <<9, 9, 9, 9, 9, 9>>]

\* the saved ImageState at position i: the first image may have been pulled
\* and released an hour ago, the second may be in use, the third has k names
SavedImageState(i, stamp, young, used, k) ==
    LET names == IF i = 3 THEN SubSeq(SweepAliases, 1, k) ELSE <<SweepNames[i]>>
    IN  [Image |-> [ImageId |-> SweepIDs[i], Names |-> names,
                    Size |-> SizeOf(SweepIDs[i])],
         Containers |-> IF used /\ i = 2
                        THEN <<[Name |-> "c1", Image |-> SweepNames[i]]>>
                        ELSE <<>>,
         PulledAt |-> IF young /\ i = 1 THEN SweepTime - 1 ELSE 1,
         LastUsedAt |-> IF young /\ i = 1 THEN SweepTime - 1 ELSE Stamps[stamp][i]]

\* the daemon's tags: those of the inventory, or none when the images were
\* deleted behind the agent's back
SavedTags(states, gone) ==
    [name \in {SweepNames[i] : i \in 1..Len(SweepNames)}
              \cup {SweepAliases[i] : i \in 1..Len(SweepAliases)} |->
        IF ~gone /\ \E i \in 1..Len(states) : hasImageName(states[i], name)
        THEN states[CHOOSE i \in 1..Len(states) :
                        hasImageName(states[i], name)].Image.ImageId
        ELSE NoImage]

\* AddAllImageStates: the inventory is the saved one
AddAllImageStates(states) == states

InitSweep ==
    /\ \E n \in 0..Len(SweepIDs), stamp \in DOMAIN Stamps,
          young \in BOOLEAN, used \in BOOLEAN, k \in 0..Len(SweepAliases),
          gone \in BOOLEAN :
          LET saved == [i \in 1..n |-> SavedImageState(i, stamp, young, used, k)]
          IN  \* the inventories explored: the images have one name each and
              \* are tagged, or they are old and were last used in the order
              \* of the inventory
              /\ (k = 1 /\ ~gone) \/ (stamp = "asc" /\ ~young)
              /\ imageStates = AddAllImageStates(saved)
              /\ tags = SavedTags(saved, gone)
    /\ updateLock = {}
    /\ now = SweepTime
    /\ pc = [g \in Procs |-> "idle"]
    /\ op = [g \in Procs |-> NoOp]
    /\ insp = [g \in Procs |-> NoImage]
    /\ found = [g \in Procs |-> NoFound]
    /\ inspectCalls = [g \in Procs |-> 0]
    /\ ret = [g \in Procs |-> "none"]
    /\ sw = [g \in Procs |-> NoSweep]
    /\ calls = 0
    /\ loopPc = "select"
    /\ ctxDone = FALSE

NextSweep ==
    \/ \E g \in Procs : Tick(g)
    \/ \E g \in Procs : Lock(g)
    \/ \E g \in Procs : SweepScan(g)
    \/ \E g \in Procs : SweepRemoveImage(g)
    \/ \E g \in Procs : Unlock(g)

\* the cleanup loop on a restored inventory
SpecSweep == InitSweep /\ [][NextSweep]_vars

-----------------------------------------------------------------------------
(* The cleanup loop until its context is cancelled, with the scheduling it *)
(* runs under                                                               *)

\* the restored inventories of the loop: old, unreferenced, tagged images in
\* the order of their last use; up to three of them, the third with up to
\* three names, or one more than a sweep may delete
InitLoop ==
    /\ \E n \in 1..Len(SweepIDs), k \in 1..Len(SweepAliases) :
          LET saved == [i \in 1..n |-> SavedImageState(i, "asc", FALSE, FALSE, k)]
          IN  /\ (n <= 3) \/ (n = Len(SweepIDs) /\ k = 1)
              /\ imageStates = AddAllImageStates(saved)
              /\ tags = SavedTags(saved, FALSE)
    /\ updateLock = {}
    /\ now = SweepTime
    /\ pc = [g \in Procs |-> "idle"]
    /\ op = [g \in Procs |-> NoOp]
    /\ insp = [g \in Procs |-> NoImage]
    /\ found = [g \in Procs |-> NoFound]
    /\ inspectCalls = [g \in Procs |-> 0]
    /\ ret = [g \in Procs |-> "none"]
    /\ sw = [g \in Procs |-> NoSweep]
    /\ calls = 0
    /\ loopPc = "select"
    /\ ctxDone = FALSE

NextLoop ==
    \/ \E g \in Procs : Tick(g)
    \/ \E g \in Procs : Lock(g)
    \/ \E g \in Procs : SweepScan(g)
    \/ \E g \in Procs : SweepRemoveImage(g)
    \/ \E g \in Procs : Unlock(g)
    \/ Cancel
    \/ LoopReturn

\* the states in which SweepScan(g) is enabled, and those in which
\* SweepRemoveImage(g) is
AtScan(g) == pc[g] = "locked" /\ op[g].kind = "sweep"
AtRemove(g) == pc[g] = "remove"

\* the ticker fires again and again; the mutex hands the lock to a goroutine
\* that keeps waiting for it; the select of the loop, which picks at random
\* among the cases that are ready, takes ctx.Done() once it stays ready; a
\* goroutine that can run does run and a RemoveImage call returns: weak
\* fairness of Unlock, SweepScan and SweepRemoveImage, the last two written
\* out with the states in which they are enabled
FairLoop ==
    /\ WF_vars(\E g \in Procs : Tick(g))
    /\ WF_vars(LoopReturn)
    /\ \A g \in Procs :
          /\ SF_vars(Lock(g))
          /\ WF_vars(Unlock(g))
          /\ []<>~AtScan(g) \/ []<><<SweepScan(g)>>_vars
          /\ []<>~AtRemove(g) \/ []<><<SweepRemoveImage(g)>>_vars

SpecLoop == InitLoop /\ [][NextLoop]_vars /\ FairLoop

-----------------------------------------------------------------------------

Next ==
    \/ AdvanceClock
    \/ \E p \in Pulls : Pull(p[1], p[2])
    \/ \E g \in Procs, kind \in {"add", "remove"}, c \in Containers :
           Call(g, kind, c)
    \/ \E g \in Procs : Tick(g)
    \/ \E g \in Procs : Lock(g)
    \/ \E g \in Procs : Unlock(g)
    \/ \E g \in Procs : EmptyImageName(g)
    \/ \E g \in Procs : InspectImage(g)
    \/ \E g \in Procs : InspectError(g)
    \/ \E g \in Procs : AddLookup(g)
    \/ \E g \in Procs : AddUpdate(g)
    \/ \E g \in Procs : RemoveReference(g)
    \/ \E g \in Procs : SweepScan(g)
    \/ \E g \in Procs : SweepRemoveImage(g)

\* the manager while the context of its cleanup loop is live
Spec == Init /\ [][Next]_vars

-----------------------------------------------------------------------------
(* Every operation of the ImageManager interface, on a manager whose       *)
(* goroutines are scheduled fairly                                          *)

\* the ImageStates a call of AddAllImageStates passes: the fourth image of
\* the saved inventory, old and unreferenced
Restored == <<SavedImageState(4, "asc", FALSE, FALSE, 1)>>

\* AddAllImageStates, lines 71-73: for _, imageState := range imageStates
\* { addImageState(imageState) }
RECURSIVE addAllImageStates(_, _)
addAllImageStates(states, loaded) ==
    IF loaded = <<>> THEN states
    ELSE addAllImageStates(addImageState(states, Head(loaded)), Tail(loaded))

\* AddAllImageStates, between Lock and the deferred Unlock
AddAllImageStatesBody(g) ==
    /\ pc[g] = "locked"
    /\ op[g].kind = "addAll"
    /\ imageStates' = addAllImageStates(imageStates, Restored)
    /\ Return(g, "none")

\* GetImageStateFromImageName, lines 344-351: the first ImageState of the
\* inventory that has the name (its ID stands for the pointer), or nil
GetImageStateFromImageName(states, containerImageName) ==
    LET Named(imageState) ==
            \E k \in 1..Len(imageState.Image.Names) :
                imageState.Image.Names[k] = containerImageName
        i == FirstIndex(states, Named)
    IN  IF i = 0 THEN "nil" ELSE states[i].Image.ImageId

\* GetImageStateFromImageName, between Lock and the deferred Unlock
GetImageStateFromImageNameBody(g) ==
    /\ pc[g] = "locked"
    /\ op[g].kind = "get"
    /\ Return(g, GetImageStateFromImageName(imageStates, op[g].container.Image))
    /\ UNCHANGED imageStates

\* the daemon holds both names when the manager starts; the clock stands at
\* the time of the restart
InitOps ==
    /\ imageStates = <<>>
    /\ updateLock = {}
    /\ tags = [n \in ImageNames |-> IF n = "x" THEN "B" ELSE "A"]
    /\ now = SweepTime
    /\ pc = [g \in Procs |-> "idle"]
    /\ op = [g \in Procs |-> NoOp]
    /\ insp = [g \in Procs |-> NoImage]
    /\ found = [g \in Procs |-> NoFound]
    /\ inspectCalls = [g \in Procs |-> 0]
    /\ ret = [g \in Procs |-> "none"]
    /\ sw = [g \in Procs |-> NoSweep]
    /\ calls = 0
    /\ loopPc = "select"
    /\ ctxDone = FALSE

\* the statements of an operation between its Lock and its return
Body(g) ==
    \/ EmptyImageName(g)
    \/ InspectImage(g)
    \/ InspectError(g)
    \/ AddLookup(g)
    \/ AddUpdate(g)
    \/ RemoveReference(g)
    \/ AddAllImageStatesBody(g)
    \/ GetImageStateFromImageNameBody(g)
    \/ SweepScan(g)
    \/ SweepRemoveImage(g)

\* the containers of the calls: one of an image the daemon holds and one
\* without an image name
OpsContainers == {c \in Containers : c.Name \in {"c1", "c3"} /\ c.Image # "y"}

NextOps ==
    \/ \E g \in Procs, kind \in {"add", "remove"}, c \in OpsContainers :
           Call(g, kind, c)
    \/ \E g \in Procs : Call(g, "addAll", NoContainer)
    \/ \E g \in Procs, n \in ImageNames :
           Call(g, "get", [Name |-> "", Image |-> n])
    \/ \E g \in Procs : Tick(g)
    \/ \E g \in Procs : Lock(g)
    \/ \E g \in Procs : Body(g)
    \/ \E g \in Procs : Unlock(g)

\* the mutex hands the lock to a goroutine that keeps waiting for it; a
\* goroutine that can run does run, and the calls of the docker client and
\* of the state saver return
FairOps ==
    \A g \in Procs :
        /\ SF_vars(Lock(g))
        /\ WF_vars(Body(g))
        /\ WF_vars(Unlock(g))

SpecOps == InitOps /\ [][NextOps]_vars /\ FairOps

-----------------------------------------------------------------------------
(* Package image: the methods of one ImageState, called by one goroutine *)

\* ImageState.UpdateContainerReference
UpdateContainerReference(imageState, container, t) ==
    [imageState EXCEPT !.Containers = Append(@, container), !.LastUsedAt = t]

\* ImageState.UpdateImageState
UpdateImageState(imageState, container, t) ==
    UpdateContainerReference(AddImageName(imageState, container.Image),
                             container, t)

\* ImageState.RemoveImageName: the same loop as removeImageName of the
\* manager; the Names it leaves and whether Names[i+1:] panicked
RemoveImageName(imageState, containerImageName) ==
    LET names == imageState.Image.Names
        r == removeImageName(containerImageName, names, names)
    IN  [state |-> [imageState EXCEPT !.Image.Names = SubSeq(r.arr, 1, r.len)],
         panic |-> r.panic]

\* the Names of the ImageState the methods are called on: any list of up to
\* three of the aliases, in any order, a name possibly more than once (Names
\* is an exported field, restored from the saved state as it was written)
AliasLists ==
    UNION {[1..n -> {SweepAliases[k] : k \in 1..Len(SweepAliases)}] :
              n \in 0..Len(SweepAliases)}

\* the goroutine that calls the methods
Caller == "g1"

InitImage ==
    /\ \E names \in AliasLists :
          imageStates = <<[NewImageState("A", 1) EXCEPT !.Image.Names = names]>>
    /\ updateLock = {}
    /\ tags = [n \in ImageNames |-> NoImage]
    /\ now = 1
    /\ pc = [g \in Procs |-> "idle"]
    /\ op = [g \in Procs |-> NoOp]
    /\ insp = [g \in Procs |-> NoImage]
    /\ found = [g \in Procs |-> NoFound]
    /\ inspectCalls = [g \in Procs |-> 0]
    /\ ret = [g \in Procs |-> "none"]
    /\ sw = [g \in Procs |-> NoSweep]
    /\ calls = 0
    /\ loopPc = "select"
    /\ ctxDone = FALSE

\* a call of a method: the call is counted and recorded in op; a panic ends
\* the goroutine
MethodCall(kind, container, state, panic) ==
    /\ pc[Caller] = "idle"
    /\ calls < MaxCalls
    /\ calls' = calls + 1
    /\ op' = [op EXCEPT ![Caller] = [kind |-> kind, container |-> container]]
    /\ imageStates' = <<state>>
    /\ pc' = IF panic THEN [pc EXCEPT ![Caller] = "panic"] ELSE pc
    /\ UNCHANGED <<updateLock, tags, now, insp, found, inspectCalls, ret, sw,
                   loopVars>>

CallUpdateContainerReference(container) ==
    MethodCall("UpdateContainerReference", container,
               UpdateContainerReference(imageStates[1], container, now), FALSE)

CallAddImageName(imageName) ==
    MethodCall("AddImageName", [Name |-> "", Image |-> imageName],
               AddImageName(imageStates[1], imageName), FALSE)

CallUpdateImageState(container) ==
    MethodCall("UpdateImageState", container,
               UpdateImageState(imageStates[1], container, now), FALSE)

CallRemoveImageName(imageName) ==
    LET r == RemoveImageName(imageStates[1], imageName)
    IN  MethodCall("RemoveImageName", [Name |-> "", Image |-> imageName],
                   r.state, r.panic)

NextImage ==
    \/ AdvanceClock
    \/ \E c \in Containers : CallUpdateContainerReference(c)
    \/ \E n \in ImageNames : CallAddImageName(n)
    \/ \E c \in Containers : CallUpdateImageState(c)
    \/ \E n \in ImageNames : CallRemoveImageName(n)

\* the methods of package image on one ImageState
SpecImage == InitImage /\ [][NextImage]_vars

-----------------------------------------------------------------------------
(* Vocabulary of the properties *)

\* the positions of the ImageStates of an image ID
IdxOf(states, id) == {i \in 1..Len(states) : states[i].Image.ImageId = id}

Holds(imageState, container) ==
    \E k \in 1..Len(imageState.Containers) : imageState.Containers[k] = container

HoldsName(imageState, containerName) ==
    \E k \in 1..Len(imageState.Containers) :
        imageState.Containers[k].Name = containerName

HasAlias(imageState, name) ==
    \E k \in 1..Len(imageState.Image.Names) : imageState.Image.Names[k] = name

\* a sequence without the occurrences of x, the rest in its order
Without(seq, x) == LET Keep(e) == e # x IN SelectSeq(seq, Keep)

\* goroutine g holds, or should hold, the lock
InCriticalSection(g) ==
    pc[g] \in {"locked", "inspected", "update", "remove", "return"}

Sweeping(g) == op[g].kind = "sweep" /\ pc[g] = "remove"

\* the last deleteImage call of a sweep
LastCall(sweep) == sweep.log[Len(sweep.log)]

\* g is a sweep that has ended its deletions and removed its last image
SweptAway(g) ==
    /\ op[g].kind = "sweep"
    /\ pc[g] = "return"
    /\ sw[g].lru # <<>>
    /\ IdxOf(imageStates, Head(sw[g].lru)) = {}

-----------------------------------------------------------------------------
(* C1 *)

C1_HeadUnreferenced ==
    \A g \in Procs : pc[g] = "remove" =>
        \E i \in IdxOf(imageStates, Head(sw[g].lru)) :
            imageStates[i].Containers = <<>>

C1_RemovedUnreferenced ==
    \A i \in 1..Len(imageStates) :
        IdxOf(imageStates', imageStates[i].Image.ImageId) = {}
            => imageStates[i].Containers = <<>>

\* C1: an image still in use is never deleted.  Whenever a sweep is about to
\* issue a RemoveImage call (for a name or for the ID of an image), that
\* image is tracked with an empty container list, and every ImageState that
\* a step takes out of the inventory has an empty container list.
C1_InUseNeverDeleted ==
    []C1_HeadUnreferenced /\ [][C1_RemovedUnreferenced]_vars

\* a sweep has deleted an image and purged it, while an image in use stays
C1_Witness ==
    \E g \in Procs :
        /\ SweptAway(g)
        /\ \E i \in 1..Len(imageStates) : imageStates[i].Containers # <<>>

-----------------------------------------------------------------------------
(* C2 *)

C2_LockHeld ==
    \A g \in Procs : InCriticalSection(g) => updateLock = {g}

C2_SelectedStayUnreferenced ==
    \A g \in Procs : pc[g] = "remove" =>
        \A k \in 1..Len(sw[g].lru) :
            \A i \in IdxOf(imageStates, sw[g].lru[k]) :
                imageStates[i].Containers = <<>>

C2_OnlyTheSweepWrites ==
    (\E g \in Procs : op[g].kind = "sweep" /\ pc[g] \in {"locked", "remove"})
        => /\ \A h \in Procs : IsCall(h) =>
                  /\ pc[h] \in {"idle", "lock"}
                  /\ pc'[h] \in {"idle", "lock"}
           /\ imageStates' # imageStates => \E g \in Procs : Sweeping(g)

\* C2: a sweep is atomic with respect to add and remove.  Every operation
\* past its Lock() (the InspectImage call and the deferred return included)
\* is the only holder of updateLock; from the scan of a sweep to the end of
\* its deletions no call is between its Lock() and its return and only the
\* sweep changes the inventory; the images a sweep selected have no
\* container reference while their deletion is pending.
C2_SweepAtomic ==
    /\ [](C2_LockHeld /\ C2_SelectedStayUnreferenced)
    /\ [][C2_OnlyTheSweepWrites]_vars

\* a sweep is deleting while an add that resolves to the selected image
\* waits for the lock
C2_Witness ==
    \E g, h \in Procs :
        /\ Sweeping(g)
        /\ pc[h] = "lock"
        /\ op[h].kind = "add"
        /\ op[h].container.Image \in ImageNames
        /\ tags[op[h].container.Image] = Head(sw[g].lru)

-----------------------------------------------------------------------------
(* C3 *)

\* the step of goroutine g from one position to another
Step(g, from, to) == pc[g] = from /\ pc'[g] = to

C3_AddStep(g) ==
    LET id == insp[g]
        c == op[g].container
        old == IdxOf(imageStates, id)
        new == IdxOf(imageStates', id)
        n == Len(imageStates)
    IN  /\ ret'[g] = "nil"
        /\ new # {}
        /\ \A i \in new : /\ Holds(imageStates'[i], c)
                          /\ HasAlias(imageStates'[i], c.Image)
        /\ IF old # {}
           THEN /\ Len(imageStates') = n
                /\ new = old
                /\ \A i \in old :
                      /\ imageStates'[i].Containers =
                             Append(imageStates[i].Containers, c)
                      /\ imageStates'[i].PulledAt = imageStates[i].PulledAt
           ELSE /\ Len(imageStates') = n + 1
                /\ new = {n + 1}
                /\ SubSeq(imageStates', 1, n) = imageStates
                /\ imageStates'[n + 1].Containers = <<c>>
                /\ imageStates'[n + 1].Image.Names = <<c.Image>>
                /\ imageStates'[n + 1].PulledAt = now

\* C3: an add whose InspectImage succeeded returns nil, and at its return
\* the inventory holds an ImageState of the resolved ID whose container list
\* contains the container and whose names contain the container's image
\* name: the ImageState that was tracked for the ID, with the container
\* appended, or else a new one, appended to the inventory.
C3_AddRegisters ==
    [][\A g \in Procs : Step(g, "update", "return") => C3_AddStep(g)]_vars

\* an add has returned after it added its container, and a second name, to
\* an ImageState that existed
C3_Witness ==
    \E g \in Procs :
        /\ pc[g] = "return"
        /\ op[g].kind = "add"
        /\ ret[g] = "nil"
        /\ found[g].ok
        /\ \E i \in IdxOf(imageStates, insp[g]) :
              /\ Holds(imageStates[i], op[g].container)
              /\ Len(imageStates[i].Image.Names) = 2
              /\ imageStates[i].Image.Names[2] = op[g].container.Image

-----------------------------------------------------------------------------
(* C4 *)

EmptyCall(g) == IsCall(g) /\ op[g].container.Image = ""

C4_NoInspect ==
    \A g \in Procs : EmptyCall(g) =>
        /\ pc[g] \in {"lock", "locked", "return"}
        /\ inspectCalls[g] = 0
        /\ pc[g] = "return" => ret[g] = "InvalidReference"

C4_NoChange ==
    \A g \in Procs :
        EmptyCall(g) /\ pc[g] \in {"locked", "return"}
            => imageStates' = imageStates

\* C4: an add or a remove of a container with an empty image string returns
\* the invalid-reference error, never calls InspectImage, and the inventory
\* stays as it is from the Lock() of the call to its return.
C4_EmptyImageRejected == []C4_NoInspect /\ [][C4_NoChange]_vars

\* a call with an empty image string has returned its error, the inventory
\* holding images
C4_Witness ==
    \E g \in Procs :
        /\ EmptyCall(g)
        /\ pc[g] = "return"
        /\ ret[g] = "InvalidReference"
        /\ imageStates # <<>>

-----------------------------------------------------------------------------
(* C5 *)

C5_ErrorReturned ==
    \A g \in Procs :
        /\ inspectCalls[g] <= 1
        /\ IsCall(g) /\ insp[g] = "err" =>
              /\ pc[g] \in {"inspected", "return"}
              /\ inspectCalls[g] = 1
              /\ pc[g] = "return" => ret[g] = "InspectionError"

C5_NoChange ==
    \A g \in Procs :
        IsCall(g) /\ (insp[g] = "err" \/ insp'[g] = "err")
            => imageStates' = imageStates

\* C5: when InspectImage fails, the add or the remove returns the error of
\* the runtime and the inventory (names, references, timestamps, the set of
\* ImageStates) stays as it is from the InspectImage call to the return; no
\* call makes more than one InspectImage call.
C5_InspectErrorNoMutation == []C5_ErrorReturned /\ [][C5_NoChange]_vars

\* an add has returned the error of an InspectImage call that failed on a
\* name the daemon holds, whose tracked holder is an image of another ID
C5_Witness ==
    \E g \in Procs :
        /\ op[g].kind = "add"
        /\ pc[g] = "return"
        /\ insp[g] = "err"
        /\ ret[g] = "InspectionError"
        /\ tags[op[g].container.Image] # NoImage
        /\ \E i \in 1..Len(imageStates) :
              /\ HasAlias(imageStates[i], op[g].container.Image)
              /\ imageStates[i].Image.ImageId # tags[op[g].container.Image]

-----------------------------------------------------------------------------
(* C6 *)

\* C6: the inventory holds at most one ImageState per image ID, whatever
\* the interleaving of adds, removes and sweeps.
C6_OneStatePerId ==
    \A i, j \in 1..Len(imageStates) :
        i # j => imageStates[i].Image.ImageId # imageStates[j].Image.ImageId

\* two adds run at once and resolve to one ID that was not tracked: the
\* first has created the ImageState and is about to return, the second
\* waits for the lock
C6_Witness ==
    \E g, h \in Procs :
        /\ pc[h] = "return"
        /\ op[h].kind = "add"
        /\ ret[h] = "nil"
        /\ ~found[h].ok
        /\ pc[g] = "lock"
        /\ op[g].kind = "add"
        /\ op[g].container.Image \in ImageNames
        /\ tags[op[g].container.Image] = insp[h]

-----------------------------------------------------------------------------
(* C7 *)

\* C7: no name is in the names of two ImageStates of different IDs.
C7_AliasUnique ==
    \A i, j \in 1..Len(imageStates) :
        imageStates[i].Image.ImageId # imageStates[j].Image.ImageId
            => \A n \in ImageNames :
                   ~(HasAlias(imageStates[i], n) /\ HasAlias(imageStates[j], n))

\* an add has moved a name from the ImageState of one ID, which is still
\* tracked, to the ImageState of another
C7_Witness ==
    \E g \in Procs :
        /\ pc[g] = "return"
        /\ op[g].kind = "add"
        /\ ret[g] = "nil"
        /\ found[g].stripped # NoImage
        /\ IdxOf(imageStates, found[g].stripped) # {}
        /\ \E i \in IdxOf(imageStates, insp[g]) :
              HasAlias(imageStates[i], op[g].container.Image)

-----------------------------------------------------------------------------
(* C8 *)

\* the untagging of an add: the ImageStates of another ID that hold the name
\* lose it and keep their other names in order; nothing else changes
C8_Untag(g) ==
    LET X == op[g].container.Image
        B == insp[g]
    IN  /\ Len(imageStates') = Len(imageStates)
        /\ \A i \in 1..Len(imageStates) :
              imageStates'[i] =
                  IF imageStates[i].Image.ImageId # B
                  THEN [imageStates[i] EXCEPT !.Image.Names = Without(@, X)]
                  ELSE imageStates[i]

\* the update of an add: the ImageStates of other IDs are as they were, and
\* an ImageState of the resolved ID holds the name
C8_Tag(g) ==
    LET X == op[g].container.Image
        B == insp[g]
    IN  /\ \A i \in 1..Len(imageStates) :
              imageStates[i].Image.ImageId # B
                  => /\ i <= Len(imageStates')
                     /\ imageStates'[i] = imageStates[i]
        /\ \E i \in IdxOf(imageStates', B) : HasAlias(imageStates'[i], X)

\* C8: when an add resolves name X to image B while the ImageState of
\* another ID, A, holds X, then at the return of the add A no longer holds
\* X, B holds X, and A's other names (in their order), A's containers and
\* A's timestamps are as they were.
C8_Reassignment ==
    /\ [][\A g \in Procs : op[g].kind = "add" /\ Step(g, "inspected", "update")
              => C8_Untag(g)]_vars
    /\ [][\A g \in Procs : Step(g, "update", "return") => C8_Tag(g)]_vars

\* an add has taken a name from an ImageState that keeps another name and
\* its container references
C8_Witness ==
    \E g \in Procs :
        /\ pc[g] = "return"
        /\ op[g].kind = "add"
        /\ ret[g] = "nil"
        /\ found[g].stripped # NoImage
        /\ \E i \in IdxOf(imageStates, found[g].stripped) :
              /\ imageStates[i].Image.Names # <<>>
              /\ imageStates[i].Containers # <<>>
              /\ ~HasAlias(imageStates[i], op[g].container.Image)

-----------------------------------------------------------------------------
(* C9 *)

C9_FailedRemove(g) ==
    LET idx == IdxOf(imageStates, insp[g])
        named == \E i \in idx : HoldsName(imageStates[i], op[g].container.Name)
    IN  /\ idx = {} => ret'[g] = "NotFound" /\ imageStates' = imageStates
        /\ idx # {} /\ ~named =>
              ret'[g] = "ReferenceNotFound" /\ imageStates' = imageStates

C9_NoChange ==
    \A g \in Procs :
        pc[g] = "return" /\ ret[g] \in {"NotFound", "ReferenceNotFound"}
            => imageStates' = imageStates

\* C9: a remove whose InspectImage succeeded returns NotFound when no
\* ImageState is tracked for the resolved ID and ReferenceNotFound when the
\* ImageState holds no container of the container's name; in both cases the
\* inventory (reference lists, names, LastUsedAt) is as it was, up to the
\* return of the call.
C9_RemoveNeverAdded ==
    /\ [][\A g \in Procs :
              op[g].kind = "remove" /\ Step(g, "inspected", "return")
                  /\ insp[g] # "err" => C9_FailedRemove(g)]_vars
    /\ [][C9_NoChange]_vars

\* a remove has returned ReferenceNotFound from an ImageState that holds
\* references of other names
C9_Witness ==
    \E g \in Procs :
        /\ pc[g] = "return"
        /\ op[g].kind = "remove"
        /\ ret[g] = "ReferenceNotFound"
        /\ \E i \in IdxOf(imageStates, insp[g]) : imageStates[i].Containers # <<>>

-----------------------------------------------------------------------------
(* C10 *)

C10_RemoveStep(g) ==
    LET name == op[g].container.Name
    IN  \E i \in IdxOf(imageStates, insp[g]) :
          \E j \in 1..Len(imageStates[i].Containers) :
            /\ imageStates[i].Containers[j].Name = name
            /\ \A k \in 1..(j - 1) : imageStates[i].Containers[k].Name # name
            /\ imageStates' =
                  [imageStates EXCEPT
                      ![i].Containers =
                          SubSeq(@, 1, j - 1) \o SubSeq(@, j + 1, Len(@)),
                      ![i].LastUsedAt = now]

\* C10: a remove that returns nil has taken out of the resolved image's
\* container list its first entry of the container's name, and only that
\* entry, has set the image's LastUsedAt to the current time, and has left
\* the image's other references, in their order, and the other images as
\* they were.
C10_RemoveFirstMatch ==
    [][\A g \in Procs :
           op[g].kind = "remove" /\ Step(g, "inspected", "return")
               /\ ret'[g] = "nil" => C10_RemoveStep(g)]_vars

\* a remove has returned nil and the image still holds a reference of the
\* same container name
C10_Witness ==
    \E g \in Procs :
        /\ pc[g] = "return"
        /\ op[g].kind = "remove"
        /\ ret[g] = "nil"
        /\ \E i \in IdxOf(imageStates, insp[g]) :
              /\ HoldsName(imageStates[i], op[g].container.Name)
              /\ ~Holds(imageStates[i], op[g].container)

-----------------------------------------------------------------------------
(* C11 *)

\* the sequence without its last element
Front(seq) == SubSeq(seq, 1, Len(seq) - 1)

\* g's remove of container C is about to act on an ImageState whose
\* Containers are as an add of C left them: a list L followed by C
AfterAddOf(g, i) ==
    /\ op[g].kind = "remove"
    /\ pc[g] = "inspected"
    /\ insp[g] # "err"
    /\ i \in IdxOf(imageStates, insp[g])
    /\ imageStates[i].Containers # <<>>
    /\ imageStates[i].Containers[Len(imageStates[i].Containers)] = op[g].container

\* what the claim says of the remove: the list is L again, C is not in it,
\* and LastUsedAt is the time of the removal, which is not before the
\* invocation of the remove as the clock never goes back
C11_Undone(g, i) ==
    /\ pc'[g] = "return"
    /\ ret'[g] = "nil"
    /\ i \in IdxOf(imageStates', insp[g])
    /\ imageStates'[i].Containers = Front(imageStates[i].Containers)
    /\ ~Holds(imageStates'[i], op[g].container)
    /\ imageStates'[i].LastUsedAt >= now

\* C11 as stated: after an add of C followed by a remove of C, the image's
\* reference list is the list before the add, without C, and LastUsedAt is
\* at or after the invocation of the remove.
C11_AddThenRemove_AsStated ==
    [][now' >= now /\ \A g \in Procs : \A i \in 1..Len(imageStates) :
           AfterAddOf(g, i) /\ pc'[g] # pc[g] => C11_Undone(g, i)]_vars

\* C11, amended: the same, when the list before the add held no reference
\* of C's container name.
C11_AddThenRemove ==
    [][now' >= now /\ \A g \in Procs : \A i \in 1..Len(imageStates) :
           /\ AfterAddOf(g, i)
           /\ ~HoldsName([imageStates[i] EXCEPT !.Containers = Front(@)],
                         op[g].container.Name)
           /\ pc'[g] # pc[g]
           => C11_Undone(g, i)]_vars

\* a remove has taken, at a time later than the start of the manager, the only
\* reference of its container name out of a list that keeps others
C11_Witness ==
    \E g \in Procs :
        /\ pc[g] = "return"
        /\ op[g].kind = "remove"
        /\ ret[g] = "nil"
        /\ now > 1
        /\ \E i \in IdxOf(imageStates, insp[g]) :
              /\ imageStates[i].Containers # <<>>
              /\ ~HoldsName(imageStates[i], op[g].container.Name)
              /\ imageStates[i].LastUsedAt = now

-----------------------------------------------------------------------------
(* C12 *)

\* g's remove takes a reference out of the ImageState of this ID
SuccessfulRemoveOf(g, id) ==
    /\ op[g].kind = "remove"
    /\ Step(g, "inspected", "return")
    /\ ret'[g] = "nil"
    /\ insp[g] = id

C12_ChangedByRemove ==
    \A i \in 1..Len(imageStates) : \A j \in 1..Len(imageStates') :
        /\ imageStates[i].Image.ImageId = imageStates'[j].Image.ImageId
        /\ imageStates[i].LastUsedAt # imageStates'[j].LastUsedAt
        => /\ \E g \in Procs : SuccessfulRemoveOf(g, imageStates[i].Image.ImageId)
           /\ Len(imageStates'[j].Containers) < Len(imageStates[i].Containers)

C12_NewIsUnused ==
    \A j \in 1..Len(imageStates') :
        IdxOf(imageStates, imageStates'[j].Image.ImageId) = {}
            => imageStates'[j].LastUsedAt = ZeroTime

\* C12: an image's LastUsedAt changes only in a step of
\* RemoveContainerReferenceFromImageState that takes a reference out of that
\* image; a new ImageState starts with the zero LastUsedAt, and adds to an
\* existing ImageState, failed removes, alias stripping and sweeps leave
\* LastUsedAt as it is.
C12_LastUsedAtOnlyOnRemove ==
    [][C12_ChangedByRemove /\ C12_NewIsUnused]_vars

\* an add has registered a container with an ImageState that was last used
\* at an earlier time, and has left that time alone
C12_Witness ==
    \E g \in Procs :
        /\ pc[g] = "return"
        /\ op[g].kind = "add"
        /\ ret[g] = "nil"
        /\ found[g].ok
        /\ \E i \in IdxOf(imageStates, insp[g]) :
              /\ imageStates[i].LastUsedAt # ZeroTime
              /\ imageStates[i].LastUsedAt < now
              /\ Holds(imageStates[i], op[g].container)

-----------------------------------------------------------------------------
(* C13 *)

\* the ImageState at position i leaves the inventory in this step
Leaves(i) == IdxOf(imageStates', imageStates[i].Image.ImageId) = {}

\* the step is a RemoveImage call of sweep g for this image that the
\* runtime acknowledged, and no alias but the one deleted was left
AcknowledgedDelete(g, imageState) ==
    /\ Sweeping(g)
    /\ Head(sw[g].lru) = imageState.Image.ImageId
    /\ Len(sw'[g].log) = Len(sw[g].log) + 1
    /\ LastCall(sw'[g]).err \in {"ok", "no such image"}
    /\ \A k \in 1..Len(imageState.Image.Names) :
           imageState.Image.Names[k] = LastCall(sw'[g]).arg

C13_BySweepOnly ==
    \A i \in 1..Len(imageStates) :
        Leaves(i) =>
            /\ imageStates[i].Containers = <<>>
            /\ \E g \in Procs : AcknowledgedDelete(g, imageStates[i])

C13_OthersStay ==
    \A g \in Procs :
        /\ op[g].kind \in {"add", "remove"} /\ pc'[g] # pc[g]
               => \A i \in 1..Len(imageStates) : ~Leaves(i)
        /\ Sweeping(g) /\ sw'[g] # sw[g]
               => \A i \in 1..Len(imageStates) :
                      imageStates[i].Image.ImageId # Head(sw[g].lru) => ~Leaves(i)

\* C13: an ImageState leaves the inventory only in a step of the sweep, when
\* it has no container reference and the runtime acknowledged a delete that
\* leaves it no alias; no step of a remove, even of the last reference, and
\* no step of an add, alias stripping included, takes an ImageState out.
C13_LeavesOnlyBySweep == [][C13_BySweepOnly /\ C13_OthersStay]_vars

\* a remove has taken the last reference of an image, whose ImageState stays
C13_Witness ==
    \E g \in Procs :
        /\ pc[g] = "return"
        /\ op[g].kind = "remove"
        /\ ret[g] = "nil"
        /\ \E i \in IdxOf(imageStates, insp[g]) :
              /\ imageStates[i].Containers = <<>>
              /\ imageStates[i].LastUsedAt = now

-----------------------------------------------------------------------------
(* C14 *)

\* eligibility as the claim states it
Eligible(imageState) ==
    /\ now - imageState.PulledAt > minimumAgeBeforeDeletion
    /\ imageState.Containers = <<>>

\* sweep g has selected its images and has not yet called RemoveImage
Scanned(g) == op[g].kind = "sweep" /\ pc[g] = "remove" /\ sw[g].log = <<>>

\* C14: getCandidateImagesForDeletion returns exactly the tracked images
\* whose age since PulledAt is strictly greater than the minimum age and
\* whose container list is empty, whatever their LastUsedAt, and nothing for
\* an empty inventory; a sweep that finds no such image selects nothing and
\* one that finds some selects only among them.
C14_CandidatesAreTheEligible ==
    /\ getCandidateImagesForDeletion(imageStates, now)
           = SelectSeq(imageStates, Eligible)
    /\ imageStates = <<>> => getCandidateImagesForDeletion(imageStates, now) = <<>>
    /\ \A i \in 1..Len(imageStates) :
           hasNoAssociatedContainers(imageStates[i])
               <=> Len(imageStates[i].Containers) = 0
    /\ \A g \in Procs : Scanned(g) =>
           /\ SelectSeq(imageStates, Eligible) # <<>>
           /\ \A k \in 1..Len(sw[g].lru) :
                  \E i \in IdxOf(imageStates, sw[g].lru[k]) : Eligible(imageStates[i])

\* a sweep has selected images while the inventory holds an old image that
\* is in use and an unreferenced image whose age is the minimum age and
\* which was used less recently than a selected one
C14_Witness ==
    \E g \in Procs :
        /\ Scanned(g)
        /\ Len(sw[g].lru) >= 2
        /\ \E i, j \in 1..Len(imageStates) :
              /\ imageStates[i].Containers # <<>>
              /\ now - imageStates[i].PulledAt > minimumAgeBeforeDeletion
              /\ imageStates[j].Containers = <<>>
              /\ now - imageStates[j].PulledAt = minimumAgeBeforeDeletion
              /\ \E m \in IdxOf(imageStates, sw[g].lru[2]) :
                    imageStates[j].LastUsedAt < imageStates[m].LastUsedAt

-----------------------------------------------------------------------------
(* C15 *)

\* the tracked ImageState of an image ID
StateOf(id) == imageStates[CHOOSE i \in IdxOf(imageStates, id) : TRUE]

DistinctLastUsedAt(states) ==
    \A i, j \in 1..Len(states) :
        i # j => states[i].LastUsedAt # states[j].LastUsedAt

\* the scan of sweep g
ScanStep(g) == op[g].kind = "sweep" /\ pc[g] = "locked" /\ pc'[g] # "locked"

\* lru is the ranking the claim describes of the candidates
C15_Ranked(candidates, lru) ==
    LET ids == {candidates[i].Image.ImageId : i \in 1..Len(candidates)}
        chosen == {lru[k] : k \in 1..Len(lru)}
    IN  /\ Len(lru) = IF Len(candidates) <= numImagesToDelete
                      THEN Len(candidates) ELSE numImagesToDelete
        /\ chosen \subseteq ids
        /\ Cardinality(chosen) = Len(lru)
        /\ \A k \in 1..(Len(lru) - 1) :
               StateOf(lru[k]).LastUsedAt < StateOf(lru[k + 1]).LastUsedAt
        /\ \A id \in ids \ chosen : \A k \in 1..Len(lru) :
               StateOf(lru[k]).LastUsedAt < StateOf(id).LastUsedAt

\* C15: for candidates of distinct LastUsedAt, getLeastRecentlyUsedImages
\* returns min(n, numImagesToDelete) of them, those of the oldest
\* LastUsedAt, in ascending order of LastUsedAt, each a candidate and none
\* twice; this is the selection of every sweep.
C15_LeastRecentlyUsed ==
    [][\A g \in Procs :
           LET candidates == SelectSeq(imageStates, Eligible)
           IN  ScanStep(g) /\ DistinctLastUsedAt(candidates)
                   => /\ C15_Ranked(candidates, sw'[g].lru)
                      /\ IdsOf(getLeastRecentlyUsedImages(candidates)) = sw'[g].lru
      ]_vars

\* a sweep has selected numImagesToDelete of more candidates, which the
\* inventory does not hold in the order of their LastUsedAt
C15_Witness ==
    \E g \in Procs :
        /\ Scanned(g)
        /\ Len(sw[g].lru) = numImagesToDelete
        /\ Len(SelectSeq(imageStates, Eligible)) > numImagesToDelete
        /\ DistinctLastUsedAt(SelectSeq(imageStates, Eligible))
        /\ imageStates[1].LastUsedAt < imageStates[2].LastUsedAt
        /\ imageStates[2].LastUsedAt > imageStates[3].LastUsedAt

-----------------------------------------------------------------------------
(* C16 *)

\* a RemoveImage call of sweep g
RemoveImageStep(g) == Sweeping(g) /\ sw'[g] # sw[g]

\* the images sweep g has called RemoveImage for, and those it has yet to
\* delete
Attempted(g) == {sw[g].log[k].image : k \in 1..Len(sw[g].log)}
Pending(g) == {sw[g].lru[k] : k \in 1..Len(sw[g].lru)}

C16_Quota ==
    \A g \in Procs :
        op[g].kind = "sweep" =>
            Cardinality(Attempted(g) \cup Pending(g)) <= numImagesToDelete

\* a RemoveImage call is for the first of the selected images that are left,
\* and the ImageState, the ID, the names and the tags of every other image
\* are out of it
C16_OnlyTheSelected(g) ==
    LET call == LastCall(sw'[g])
    IN  /\ call.image = Head(sw[g].lru)
        /\ call.image \in Pending(g)
        /\ \A i \in 1..Len(imageStates) :
               imageStates[i].Image.ImageId # call.image =>
                   /\ \E j \in 1..Len(imageStates') : imageStates'[j] = imageStates[i]
                   /\ call.arg # imageStates[i].Image.ImageId
                   /\ ~HasAlias(imageStates[i], call.arg)
                   /\ \A k \in 1..Len(imageStates[i].Image.Names) :
                          tags'[imageStates[i].Image.Names[k]]
                              = tags[imageStates[i].Image.Names[k]]

\* C16: a sweep selects, and so removes from the inventory, at most
\* numImagesToDelete images, and each of its RemoveImage calls is for one of
\* the selected: the eligible images ranked after the quota are neither
\* deleted from the runtime nor removed from the inventory in that sweep.
C16_AtMostQuotaPerSweep ==
    /\ []C16_Quota
    /\ [][\A g \in Procs : RemoveImageStep(g) => C16_OnlyTheSelected(g)]_vars
    /\ [][\A g \in Procs : ScanStep(g) =>
              \A i \in 1..Len(imageStates) : \E j \in 1..Len(imageStates') :
                  imageStates'[j] = imageStates[i]]_vars

\* a sweep has deleted numImagesToDelete images and returns, and the
\* inventory still holds an eligible image
C16_Witness ==
    \E g \in Procs :
        /\ op[g].kind = "sweep"
        /\ pc[g] = "return"
        /\ Cardinality(Attempted(g)) = numImagesToDelete
        /\ \A id \in Attempted(g) : IdxOf(imageStates, id) = {}
        /\ \E i \in 1..Len(imageStates) : Eligible(imageStates[i])

-----------------------------------------------------------------------------
(* C17 *)

\* the age of the image since it was pulled does not exceed the minimum age
Young(imageState) == now - imageState.PulledAt <= minimumAgeBeforeDeletion

C17_YoungNotSelected ==
    \A g \in Procs : \A i \in 1..Len(imageStates) :
        op[g].kind = "sweep" /\ Young(imageStates[i])
            => imageStates[i].Image.ImageId \notin Pending(g)

C17_YoungUntouched(g) ==
    LET call == LastCall(sw'[g])
    IN  \A i \in 1..Len(imageStates) :
            Young(imageStates[i]) =>
                /\ call.image # imageStates[i].Image.ImageId
                /\ call.arg # imageStates[i].Image.ImageId
                /\ ~HasAlias(imageStates[i], call.arg)
                /\ \E j \in 1..Len(imageStates') : imageStates'[j] = imageStates[i]

\* C17: a sweep never selects, never passes to RemoveImage and never removes
\* from the inventory an image whose age since PulledAt does not exceed the
\* minimum age, be it unreferenced, the least recently used and the quota
\* not exhausted.
C17_MinimumAge ==
    /\ []C17_YoungNotSelected
    /\ [][\A g \in Procs : RemoveImageStep(g) => C17_YoungUntouched(g)]_vars

\* a sweep has deleted fewer images than the quota and returns, and the
\* inventory holds an unreferenced image of the minimum age that was used
\* less recently than the other images there
C17_Witness ==
    \E g \in Procs :
        /\ op[g].kind = "sweep"
        /\ pc[g] = "return"
        /\ sw[g].log # <<>>
        /\ Cardinality(Attempted(g)) < numImagesToDelete
        /\ \E id \in Attempted(g) : IdxOf(imageStates, id) = {}
        /\ \E i \in 1..Len(imageStates) :
              /\ Young(imageStates[i])
              /\ imageStates[i].Containers = <<>>
              /\ Len(imageStates) > 1
              /\ \A j \in 1..Len(imageStates) :
                     j # i => imageStates[i].LastUsedAt < imageStates[j].LastUsedAt

-----------------------------------------------------------------------------
(* C18 *)

\* the last RemoveImage call of sweep g for the image it is deleting
LastCallForImage(g) ==
    /\ RemoveImageStep(g)
    /\ pc'[g] = "return" \/ sw'[g].lru # sw[g].lru

\* the arguments of the RemoveImage calls of a sweep for an image, in order
ArgsFor(sweep, id) ==
    LET ForImage(call) == call.image = id
        made == SelectSeq(sweep.log, ForImage)
    IN  [k \in 1..Len(made) |-> made[k].arg]

C18_OncePerAlias(g) ==
    LET id == Head(sw[g].lru)
        names == sw[g].names
        args == ArgsFor(sw'[g], id)
    IN  IF names = <<>>
        THEN args = <<id>>
        ELSE /\ Len(args) = Len(names)
             /\ \A n \in 1..Len(names) :
                    Cardinality({k \in 1..Len(args) : args[k] = names[n]}) = 1
             /\ \A k \in 1..Len(args) : args[k] # id

\* C18: for each image a sweep selected, the RemoveImage calls of the sweep
\* are one call with the image ID when the image has no alias, and otherwise
\* one call per alias: each alias is the argument of exactly one call and
\* the ID of none.
C18_OneCallPerAlias ==
    [][\A g \in Procs : LastCallForImage(g) => C18_OncePerAlias(g)]_vars

-----------------------------------------------------------------------------
(* C19 *)

Acknowledged(call) == call.err \in {"ok", "no such image"}

\* sweep g has made its last RemoveImage call and returns
SweepDone(g) == op[g].kind = "sweep" /\ pc[g] = "return" /\ sw[g].log # <<>>

\* C19: at the end of a sweep whose RemoveImage calls were all acknowledged
\* (success or "no such image"), no image the sweep selected is left in the
\* inventory, with or without aliases.
C19_AcknowledgedMeansGone ==
    \A g \in Procs :
        /\ SweepDone(g)
        /\ \A k \in 1..Len(sw[g].log) : Acknowledged(sw[g].log[k])
        => \A id \in Attempted(g) : IdxOf(imageStates, id) = {}

-----------------------------------------------------------------------------
(* C20 *)

\* the effect of an acknowledged delete on the image it was made for: the
\* argument is out of the names and, when no name is left, the ImageState
\* is out of the inventory and the state was saved
C20_Deleted(g) ==
    LET call == LastCall(sw'[g])
        before == IdxOf(imageStates, call.image)
        after == IdxOf(imageStates', call.image)
    IN  /\ before # {}
        /\ \A i \in before :
               IF Without(imageStates[i].Image.Names, call.arg) = <<>>
               THEN after = {} /\ call.saved
               ELSE /\ after # {}
                    /\ ~call.saved
                    /\ \A j \in after :
                           imageStates'[j] =
                               [imageStates[i] EXCEPT
                                   !.Image.Names = Without(@, call.arg)]

\* C20: a RemoveImage that fails with "no such image" has the effect of one
\* that succeeds: the alias is taken out of the image's names and, when that
\* leaves no name, the ImageState is removed from the inventory and the
\* state is saved.
C20_NotFoundIsSuccess ==
    [][\A g \in Procs :
           RemoveImageStep(g) /\ Acknowledged(LastCall(sw'[g])) => C20_Deleted(g)
      ]_vars

\* the daemon did not know the last name of an image: the sweep has removed
\* the ImageState and saved the state
C20_Witness ==
    \E g \in Procs :
        /\ op[g].kind = "sweep"
        /\ sw[g].log # <<>>
        /\ LastCall(sw[g]).err = "no such image"
        /\ LastCall(sw[g]).arg # LastCall(sw[g]).image
        /\ LastCall(sw[g]).saved
        /\ IdxOf(imageStates, LastCall(sw[g]).image) = {}

-----------------------------------------------------------------------------
(* C21 *)

Failed(call) == call.err = "error"

\* C21: a RemoveImage call that fails with an error other than "no such
\* image" is the last call of the sweep for that image: its remaining
\* aliases are not passed to RemoveImage in this sweep.
C21_ErrorStopsTheImage ==
    \A g \in Procs : \A k, m \in 1..Len(sw[g].log) :
        k < m /\ Failed(sw[g].log[k])
            => sw[g].log[m].image # sw[g].log[k].image

-----------------------------------------------------------------------------
(* C22 *)

\* the calls of a sweep for an image were all acknowledged
AllAcknowledged(sweep, id) ==
    \A k \in 1..Len(sweep.log) :
        sweep.log[k].image = id => Acknowledged(sweep.log[k])

\* C22: at the end of a sweep in which a RemoveImage call failed, every
\* selected image has been processed, and the selected images whose
\* deletes were all acknowledged are out of the inventory.
C22_ErrorDoesNotAbortTheBatch ==
    \A g \in Procs :
        SweepDone(g) /\ (\E k \in 1..Len(sw[g].log) : Failed(sw[g].log[k]))
            => /\ Pending(g) \subseteq Attempted(g)
               /\ \A id \in Attempted(g) :
                      AllAcknowledged(sw[g], id) => IdxOf(imageStates, id) = {}

-----------------------------------------------------------------------------
(* C24 *)

\* sweep g makes a RemoveImage call in this step
Called(g) == Len(sw'[g].log) = Len(sw[g].log) + 1

\* sweep g calls saver.Save() in this step
Saves(g) == Called(g) /\ LastCall(sw'[g]).saved

\* the IDs of the images that leave the inventory in this step
Purged ==
    {imageStates[i].Image.ImageId :
        i \in {j \in 1..Len(imageStates) : Leaves(j)}}

\* C24: a step saves the state exactly when it is the RemoveImage step of a
\* sweep after which the ImageState of the image it was called for is no
\* longer in the inventory; no other ImageState leaves in that step, a step
\* that removes no ImageState (a failed delete, a delete that leaves names
\* behind, a step of another kind) does not save, and no two saves happen
\* for one removal.
C24_SaveOncePerPurge ==
    [][/\ \A g \in Procs : Saves(g) => Purged = {LastCall(sw'[g]).image}
       /\ Purged # {} => \E g \in Procs : Saves(g)
       /\ Cardinality({g \in Procs : Saves(g)}) <= 1]_vars

\* a sweep has made a delete that failed, one that left names behind and
\* one that removed the ImageState and saved
C24_Witness ==
    \E g \in Procs : \E a, b, c \in 1..Len(sw[g].log) :
        /\ Failed(sw[g].log[a]) /\ ~sw[g].log[a].saved
        /\ sw[g].log[b].err = "ok" /\ ~sw[g].log[b].saved
        /\ sw[g].log[c].saved
        /\ IdxOf(imageStates, sw[g].log[c].image) = {}

-----------------------------------------------------------------------------
(* C23 *)

\* C23: while and after a sweep makes its calls, every RemoveImage call of
\* it that failed with an error other than "no such image" has left what it
\* was called with tracked: the ImageState is in the inventory, a name that
\* was passed is still in its Names, no call of the sweep for that image
\* saved the state, and the image is still unreferenced and old enough, so
\* that the next sweep finds it among its candidates.
C23_FailedDeleteStaysTracked ==
    \A g \in Procs : \A k \in 1..Len(sw[g].log) :
        LET call == sw[g].log[k]
        IN  Failed(call) =>
                /\ IdxOf(imageStates, call.image) # {}
                /\ call.arg # call.image => HasAlias(StateOf(call.image), call.arg)
                /\ \A m \in 1..Len(sw[g].log) :
                       sw[g].log[m].image = call.image => ~sw[g].log[m].saved
                /\ Eligible(StateOf(call.image))

-----------------------------------------------------------------------------
(* C25 *)

\* a RemoveImage call of sweep g has failed
HasFailed(g) == \E k \in 1..Len(sw[g].log) : Failed(sw[g].log[k])

\* the loop starts a sweep in this step
StartsSweep == \E g \in Procs : Tick(g)

\* C25: the loop leaves its select only when its context is cancelled,
\* whatever deletes have failed, and unless the context is cancelled it
\* starts a sweep again and again, after every sweep with failed deletes too.
C25_ErrorsDoNotStopTheLoop ==
    /\ [][loopPc' # loopPc => ctxDone]_vars
    /\ [][(\E g \in Procs : HasFailed(g)) /\ ~ctxDone => loopPc' = "select"]_vars
    /\ <>ctxDone \/ []<><<StartsSweep>>_vars

\* a sweep with a failed delete is over and the loop, not cancelled, has
\* started another one
C25_Witness ==
    /\ ~ctxDone
    /\ loopPc = "select"
    /\ \E g, h \in Procs :
          /\ SweepDone(g) /\ HasFailed(g)
          /\ op[h].kind = "sweep" /\ pc[h] = "lock"

-----------------------------------------------------------------------------
(* C26 *)

\* C26: once the context is cancelled the loop eventually returns, although
\* its select may still take ticks until then; once it has returned it stays
\* so and no step starts a sweep.
C26_CancelStopsTheLoop ==
    /\ ctxDone ~> (loopPc = "returned")
    /\ [][loopPc = "returned" =>
              /\ loopPc' = "returned"
              /\ \A g \in Procs : ~Step(g, "idle", "lock")]_vars

\* the loop has returned after a tick that started a sweep
C26_Witness ==
    /\ loopPc = "returned"
    /\ \E g \in Procs : op[g].kind = "sweep" /\ pc[g] = "lock"

-----------------------------------------------------------------------------
(* C27 *)

\* sweep g waits for the lock, scans the candidates or makes its calls
InProgress(g) ==
    op[g].kind = "sweep" /\ pc[g] \in {"lock", "locked", "remove"}

\* C27: when the loop has returned, no sweep is waiting for the lock,
\* scanning the candidates or making RemoveImage calls.
C27_NoCycleLeftRunning ==
    loopPc = "returned" => \A g \in Procs : ~InProgress(g)

-----------------------------------------------------------------------------
(* C28 *)

\* C28: a sweep that is in progress when the context is cancelled goes on to
\* its return: it ends in no other way, it passes from each image it
\* selected to the next only with a RemoveImage call for it, and at its
\* return the last of the images it selected has had its calls.
C28_CancelDoesNotInterrupt ==
    /\ \A g \in Procs : (InProgress(g) /\ ctxDone) ~> (pc[g] = "return")
    /\ [][\A g \in Procs :
              ctxDone /\ InProgress(g) =>
                  /\ op'[g].kind = "sweep"
                  /\ sw'[g].lru # sw[g].lru /\ sw[g].lru # <<>> =>
                         /\ sw'[g].lru = Tail(sw[g].lru)
                         /\ Called(g)
                         /\ LastCall(sw'[g]).image = Head(sw[g].lru)
                  /\ pc'[g] = "return" /\ sw[g].lru # <<>> =>
                         /\ Len(sw[g].lru) = 1
                         /\ Called(g)
                         /\ LastCall(sw'[g]).image = Head(sw[g].lru)]_vars

\* the loop has returned and a sweep has since made the calls for the
\* second image it selected
C28_Witness ==
    /\ loopPc = "returned"
    /\ \E g \in Procs :
          /\ SweepDone(g)
          /\ Cardinality(Attempted(g)) >= 2
          /\ IdxOf(imageStates, LastCall(sw[g]).image) = {}

-----------------------------------------------------------------------------
(* C29 *)

\* a sweep is about to call RemoveImage for this image
DeleteEnabled(id) ==
    \E g \in Procs : AtRemove(g) /\ Head(sw[g].lru) = id

\* the runtime acknowledges a RemoveImage call for this image in this step
AckRemove(id) ==
    \E g \in Procs :
        /\ SweepRemoveImage(g)
        /\ Head(sw[g].lru) = id
        /\ Acknowledged(LastCall(sw'[g]))

\* the runtime eventually acknowledges the deletions of this image: strong
\* fairness of AckRemove(id), which is enabled in the states of
\* DeleteEnabled(id)
EventuallyAcknowledged(id) ==
    <>[]~DeleteEnabled(id) \/ []<><<AckRemove(id)>>_vars

\* C29: an unreferenced, old enough image of the inventory, to which no
\* reference is added and whose deletions the runtime eventually
\* acknowledges, eventually leaves the inventory unless the loop is
\* cancelled.
C29_Progress ==
    \A id \in {SweepIDs[i] : i \in 1..Len(SweepIDs)} :
        EventuallyAcknowledged(id) =>
            ((IdxOf(imageStates, id) # {})
                 ~> (IdxOf(imageStates, id) = {} \/ ctxDone))

-----------------------------------------------------------------------------
(* C30 *)

\* the caller of g has pulled the image of its container and has called
\* AddContainerReferenceToImageState, which has not yet taken the lock
PulledNotYetAdded(g) ==
    /\ op[g].kind = "add"
    /\ pc[g] = "lock"
    /\ op[g].container.Image \in DOMAIN tags
    /\ tags[op[g].container.Image] # NoImage

\* C30: between a caller's pull of an image and its add, no RemoveImage call
\* of a sweep takes the pulled image away: the name the caller pulled keeps
\* its image and the image stays in the inventory if it was there.
C30_NoDeleteDuringPull ==
    [][\A g, h \in Procs :
          PulledNotYetAdded(g) /\ RemoveImageStep(h) =>
              /\ tags'[op[g].container.Image] = tags[op[g].container.Image]
              /\ IdxOf(imageStates, tags[op[g].container.Image]) # {} =>
                     IdxOf(imageStates', tags[op[g].container.Image]) # {}]_vars

-----------------------------------------------------------------------------
(* C31 *)

\* the number of occurrences of a name in a list of names
Occurrences(names, name) ==
    Cardinality({k \in 1..Len(names) : names[k] = name})

\* C31: no alias list of the inventory holds a name twice, and on each of
\* them AddImageName called twice with a name leaves one occurrence of the
\* name, the list being what one call leaves.
C31_AliasAddIdempotent ==
    \A i \in 1..Len(imageStates) : \A name \in ImageNames :
        LET once == AddImageName(imageStates[i], name)
            twice == AddImageName(once, name)
        IN  /\ Occurrences(imageStates[i].Image.Names, name) <= 1
            /\ Occurrences(twice.Image.Names, name) = 1
            /\ twice = once

\* two adds with the same image name have registered their containers on
\* an image, which has the name once
C31_Witness ==
    \E i \in 1..Len(imageStates) :
        /\ Len(imageStates[i].Containers) = 2
        /\ imageStates[i].Containers[1].Image = imageStates[i].Containers[2].Image
        /\ imageStates[i].Image.Names = <<imageStates[i].Containers[1].Image>>

-----------------------------------------------------------------------------
(* C32 *)

\* this step is a call of the method on the ImageState
Method(kind) == calls' = calls + 1 /\ op'[Caller].kind = kind

\* C32: UpdateContainerReference, called directly or through
\* UpdateImageState, appends the container to Containers and leaves
\* LastUsedAt as it was.
C32_AddRefKeepsLastUsedAt ==
    [][Method("UpdateContainerReference") \/ Method("UpdateImageState") =>
          /\ imageStates'[1].Containers =
                 Append(imageStates[1].Containers, op'[Caller].container)
          /\ imageStates'[1].LastUsedAt = imageStates[1].LastUsedAt]_vars

-----------------------------------------------------------------------------
(* C33 *)

\* C33: RemoveImageName returns, and leaves in Names the names other than
\* the one removed, in their order, whatever the list: the name absent,
\* present once or present several times.
C33_RemoveAliasRemovesAll ==
    [][Method("RemoveImageName") =>
          /\ pc'[Caller] # "panic"
          /\ imageStates'[1].Image.Names =
                 Without(imageStates[1].Image.Names,
                         op'[Caller].container.Image)]_vars

-----------------------------------------------------------------------------
(* C34 *)

\* the Containers of the image of this ID, none if it is not tracked
ContainersOf(states, id) ==
    IF IdxOf(states, id) = {} THEN <<>>
    ELSE states[CHOOSE i \in IdxOf(states, id) : TRUE].Containers

\* this step is the update of a successful add of g, for the image of this ID
SuccessfulAddOf(g, id) ==
    /\ op[g].kind = "add"
    /\ Step(g, "update", "return")
    /\ ret'[g] = "nil"
    /\ insp[g] = id

\* C34: every successful add appends its container to the Containers of the
\* image, whether or not a container of that name is there; every
\* successful remove takes exactly one entry away; no other step changes
\* the Containers of an image, and an image leaves the inventory only with
\* none, so that n adds keep the image until n removes have been made.
C34_DuplicateAddsCount ==
    [][\A id \in ImageIDs :
          LET before == ContainersOf(imageStates, id)
              after == ContainersOf(imageStates', id)
          IN  IF \E g \in Procs : SuccessfulAddOf(g, id)
              THEN \E g \in Procs :
                       /\ SuccessfulAddOf(g, id)
                       /\ after = Append(before, op[g].container)
              ELSE IF \E g \in Procs : SuccessfulRemoveOf(g, id)
              THEN Len(after) = Len(before) - 1
              ELSE /\ after = before
                   /\ IdxOf(imageStates', id) = {} => before = <<>>]_vars

\* after two adds for a container name and one successful remove the image
\* still holds a reference of that name
C34_Witness ==
    \E g \in Procs :
        /\ calls = 3
        /\ op[g].kind = "remove"
        /\ pc[g] = "return"
        /\ ret[g] = "nil"
        /\ Len(ContainersOf(imageStates, insp[g])) = 1
        /\ ContainersOf(imageStates, insp[g])[1].Name = op[g].container.Name

-----------------------------------------------------------------------------
(* C35 *)

\* the runtime fails a RemoveImage call for this image in this step
FailRemove(id) ==
    \E g \in Procs :
        /\ SweepRemoveImage(g)
        /\ Head(sw[g].lru) = id
        /\ Failed(LastCall(sw'[g]))

\* C35: an unreferenced, old enough image of the inventory for which, from
\* some time on, no RemoveImage call fails eventually leaves the inventory
\* unless the loop is cancelled, whatever happens to the calls for the
\* other images.
C35_NoStarvation ==
    \A id \in {SweepIDs[i] : i \in 1..Len(SweepIDs)} :
        <>[][~FailRemove(id)]_vars =>
            ((IdxOf(imageStates, id) # {})
                 ~> (IdxOf(imageStates, id) = {} \/ ctxDone))

-----------------------------------------------------------------------------
(* C36 *)

\* the number of entries of a list of Containers that are this container
References(containers, container) ==
    Cardinality({k \in 1..Len(containers) : containers[k] = container})

\* the IDs of the images on which this container is registered
RegisteredOn(container) ==
    {id \in ImageIDs : References(ContainersOf(imageStates, id), container) > 0}

\* C36: a RemoveContainerReferenceFromImageState whose inspection succeeded,
\* for a container that is registered on an image, returns nil and takes one
\* reference of the container away from an image it was registered on,
\* whatever image its name resolves to by now.
C36_AddedCanBeRemoved ==
    [][\A g \in Procs :
          /\ op[g].kind = "remove"
          /\ Step(g, "inspected", "return")
          /\ ~InspectFailed(insp[g])
          /\ RegisteredOn(op[g].container) # {}
          => /\ ret'[g] = "nil"
             /\ \E id \in RegisteredOn(op[g].container) :
                    References(ContainersOf(imageStates', id), op[g].container)
                        = References(ContainersOf(imageStates, id),
                                     op[g].container) - 1]_vars

-----------------------------------------------------------------------------
(* C37 *)

\* this step creates the ImageState at position j of the new inventory
CreatedAt(j) == IdxOf(imageStates, imageStates'[j].Image.ImageId) = {}

\* C37: an ImageState that a step creates has the ID the add inspected, the
\* size of that image and the time of the add as PulledAt; an ImageState
\* that a step keeps has the ID, Size and PulledAt it had, whatever the step:
\* an add, a remove, the stripping of a name or a call of a sweep.
C37_IdentityFixed ==
    [][\A j \in 1..Len(imageStates') :
          IF CreatedAt(j)
          THEN \E g \in Procs :
                   /\ SuccessfulAddOf(g, imageStates'[j].Image.ImageId)
                   /\ imageStates'[j].Image.Size = SizeOf(insp[g])
                   /\ imageStates'[j].PulledAt = now
          ELSE \A i \in IdxOf(imageStates, imageStates'[j].Image.ImageId) :
                   /\ imageStates'[j].Image.Size = imageStates[i].Image.Size
                   /\ imageStates'[j].PulledAt = imageStates[i].PulledAt]_vars

\* an image that was released is referenced again, later than it was pulled
C37_Witness ==
    \E i \in 1..Len(imageStates) :
        /\ imageStates[i].LastUsedAt > imageStates[i].PulledAt
        /\ imageStates[i].Containers # <<>>
        /\ imageStates[i].PulledAt < now
        /\ \E g \in Procs :
               /\ op[g].kind = "add" /\ pc[g] = "return" /\ ret[g] = "nil"
               /\ insp[g] = imageStates[i].Image.ImageId

-----------------------------------------------------------------------------
(* C38 *)

\* one list is the other without some of its elements, the rest in order
RECURSIVE IsSubsequence(_, _)
IsSubsequence(short, long) ==
    IF short = <<>> THEN TRUE
    ELSE IF long = <<>> THEN FALSE
    ELSE IF Head(short) = Head(long)
    THEN IsSubsequence(Tail(short), Tail(long))
    ELSE IsSubsequence(short, Tail(long))

\* the image a RemoveImage call of this step is made for
BeingDeleted(id) ==
    \E g \in Procs : RemoveImageStep(g) /\ Head(sw[g].lru) = id

\* C38: in every step of a sweep the inventory after the step is the one
\* before it without some of its ImageStates, in the same order; only the
\* image the step calls RemoveImage for, which the sweep selected, may leave
\* or lose names; every ImageState that stays keeps its Containers, PulledAt,
\* LastUsedAt and Size.  A scan that finds no candidate ends the sweep, and
\* a sweep that selected nothing has made no call and no save.
C38_SweepFrame ==
    /\ [][/\ IsSubsequence(IdsOf(imageStates'), IdsOf(imageStates))
          /\ \A i \in 1..Len(imageStates) :
                 LET id == imageStates[i].Image.ImageId
                 IN  /\ Leaves(i) => BeingDeleted(id)
                     /\ \A j \in IdxOf(imageStates', id) :
                            /\ imageStates'[j].Containers = imageStates[i].Containers
                            /\ imageStates'[j].PulledAt = imageStates[i].PulledAt
                            /\ imageStates'[j].LastUsedAt = imageStates[i].LastUsedAt
                            /\ imageStates'[j].Image.Size = imageStates[i].Image.Size
                            /\ IsSubsequence(imageStates'[j].Image.Names,
                                             imageStates[i].Image.Names)
                            /\ ~BeingDeleted(id) => imageStates'[j] = imageStates[i]
          /\ \A g \in Procs :
                 ScanStep(g) /\ (\A i \in 1..Len(imageStates) :
                                    ~Eligible(imageStates[i]))
                     => /\ pc'[g] = "return"
                        /\ sw'[g] = NoSweep
                        /\ imageStates' = imageStates]_vars
    /\ [](\A g \in Procs : sw[g].lru = <<>> => sw[g].log = <<>>)

\* a sweep has ended that left an image in use alone and took a name, but
\* not the last, from an image it selected
C38_Witness ==
    \E g \in Procs :
        /\ SweepDone(g)
        /\ \E i \in 1..Len(imageStates) : imageStates[i].Containers # <<>>
        /\ \E j \in 1..Len(imageStates) :
               /\ imageStates[j].Image.ImageId \in Attempted(g)
               /\ Len(imageStates[j].Image.Names) = 1
               /\ Len(ArgsFor(sw[g], imageStates[j].Image.ImageId)) >= 2

-----------------------------------------------------------------------------
(* C39 *)

\* sweep g is between taking the lock and its return: about to scan the
\* candidates or making its RemoveImage calls
Inside(g) == op[g].kind = "sweep" /\ pc[g] \in {"locked", "remove"}

\* C39: at most one sweep at a time is between its scan and its last
\* deletion, however many the ticks have started; and what a sweep has
\* selected and not yet deleted is in the inventory, unreferenced and old
\* enough, as its scan found it: no other sweep has been at it since.
C39_SweepsDoNotOverlap ==
    /\ Cardinality({g \in Procs : Inside(g)}) <= 1
    /\ \A g \in Procs :
           Sweeping(g) =>
               \A k \in 1..Len(sw[g].lru) :
                   /\ IdxOf(imageStates, sw[g].lru[k]) # {}
                   /\ Eligible(StateOf(sw[g].lru[k]))

\* a sweep is making its calls while the sweep of a later tick waits for
\* the lock
C39_Witness ==
    \E g, h \in Procs :
        /\ Sweeping(g)
        /\ sw[g].log # <<>>
        /\ op[h].kind = "sweep"
        /\ pc[h] = "lock"

-----------------------------------------------------------------------------
(* C40 *)

\* the operation of g has started and has not returned to its caller
Started(g) == pc[g] # "idle"

\* g is between its Lock and its deferred Unlock
BetweenLockAndUnlock(g) ==
    pc[g] \in {"locked", "inspected", "update", "remove", "return"}

\* the errors an operation returns
ErrorReturns ==
    {"InvalidReference", "InspectionError", "NotFound", "ReferenceNotFound"}

\* C40: deadlock freedom.  Under any interleaving of adds, removes,
\* AddAllImageStates, GetImageStateFromImageName and sweeps: a goroutine
\* holds the manager's lock exactly between the Lock and the return of its
\* operation, and at most one goroutine holds it; an operation takes the
\* lock only while it waits for it and the lock is free, hence never while
\* it holds it, and it waits for it only once, when it starts; an operation
\* that returns, with an error or without, gives the lock back in the same
\* step; and, the docker and saver calls returning, every operation that
\* started completes.
C40_DeadlockFree ==
    /\ [](\A g \in Procs : g \in updateLock <=> BetweenLockAndUnlock(g))
    /\ [](Cardinality(updateLock) <= 1)
    /\ [][\A g \in Procs :
            /\ (g \notin updateLock /\ g \in updateLock')
                   => pc[g] = "lock" /\ updateLock = {}
            /\ (pc[g] # "lock" /\ pc'[g] = "lock") => ~Started(g)
            /\ (Started(g) /\ ~Started(g)')
                   => g \in updateLock /\ g \notin updateLock']_vars
    /\ \A g \in Procs : Started(g) ~> ~Started(g)

\* an add or a remove is about to return an error while it holds the lock
\* and another operation waits for the lock
C40_Witness ==
    \E g \in Procs, h \in Procs :
        /\ pc[g] = "return"
        /\ ret[g] \in ErrorReturns
        /\ g \in updateLock
        /\ pc[h] = "lock"
        /\ op[h].kind \in {"addAll", "get", "sweep"}

=============================================================================
